---- MODULE Spec2Model ----
(***************************************************************************)
(* A model of cine-bot's backend: the rule-based intent classifier         *)
(* (backend/intent_classifier.py), the chat endpoint with its in-memory    *)
(* conversation store (backend/main.py) and the response generator's       *)
(* dispatch (backend/response_generator.py).                               *)
(*                                                                         *)
(* Text is modelled by TLA+ strings, read character by character with      *)
(* SubSeq, so that the regular expressions of the source are computed on   *)
(* the text itself.                                                        *)
(***************************************************************************)
EXTENDS Naturals, Integers, Sequences, FiniteSets, TLC

(***************************************************************************)
(* Characters and the str methods the source uses.                         *)
(***************************************************************************)
UpperChars == "ABCDEFGHIJKLMNOPQRSTUVWXYZ"
LowerChars == "abcdefghijklmnopqrstuvwxyz"
DigitChars == "0123456789"

CharAt(s, i) == SubSeq(s, i, i)

CharsOf(s) == {CharAt(s, i) : i \in 1..Len(s)}

UpperSet == CharsOf(UpperChars)
LowerSet == CharsOf(LowerChars)
DigitSet == CharsOf(DigitChars)

\* \w of the re module, for the ASCII text of the model
WordSet == UpperSet \cup LowerSet \cup DigitSet \cup {"_"}

\* \s of the re module and the whitespace of str.strip / str.split
SpaceSet == {" "}

\* str.lower on one character
LowerCh(c) ==
    IF c \in UpperSet
    THEN CharAt(LowerChars, CHOOSE i \in 1..26 : CharAt(UpperChars, i) = c)
    ELSE c

\* str.lower
RECURSIVE lower(_)
lower(s) == IF s = "" THEN "" ELSE LowerCh(Head(s)) \o lower(Tail(s))

\* str.lstrip, str.rstrip, str.strip
RECURSIVE lstrip(_)
lstrip(s) == IF s # "" /\ Head(s) \in SpaceSet THEN lstrip(Tail(s)) ELSE s

RECURSIVE rstrip(_)
rstrip(s) ==
    IF s # "" /\ CharAt(s, Len(s)) \in SpaceSet
    THEN rstrip(SubSeq(s, 1, Len(s) - 1))
    ELSE s

strip(s) == rstrip(lstrip(s))

\* the positions at which a word of str.split() starts
WordStarts(s) ==
    {i \in 1..Len(s) : CharAt(s, i) \notin SpaceSet
                       /\ (i = 1 \/ CharAt(s, i - 1) \in SpaceSet)}

\* len(s.split())
WordCount(s) == Cardinality(WordStarts(s))

\* the end of the split() word that starts at i
WordEnd(s, i) ==
    CHOOSE j \in i..Len(s) :
        /\ \A k \in i..j : CharAt(s, k) \notin SpaceSet
        /\ (j = Len(s) \/ CharAt(s, j + 1) \in SpaceSet)

\* s.split(), as the set of its words with their start positions
SplitWords(s) == {<<i, SubSeq(s, i, WordEnd(s, i))>> : i \in WordStarts(s)}

\* whether w occurs in s at position i
MatchAt(s, i, w) ==
    /\ i >= 1
    /\ i + Len(w) - 1 <= Len(s)
    /\ SubSeq(s, i, i + Len(w) - 1) = w

\* `w in s` of Python
Contains(s, w) == \E i \in 1..(Len(s) + 1) : MatchAt(s, i, w)

\* whether position i (1..Len(s)) holds a \w character
IsWordAt(s, i) == i >= 1 /\ i <= Len(s) /\ CharAt(s, i) \in WordSet

\* \b of the re module just before position i (i in 1..Len(s)+1)
WB(s, i) == IsWordAt(s, i - 1) # IsWordAt(s, i)

\* \b(w1|w2|...)\b found anywhere in s
HasWord(s, W) ==
    \E w \in W : \E i \in 1..Len(s) :
        MatchAt(s, i, w) /\ WB(s, i) /\ WB(s, i + Len(w))

(***************************************************************************)
(* Intent, the enumeration of intent_classifier.py, by its values.         *)
(***************************************************************************)
GREETING == "greeting"
RECOMMENDATION == "recommendation"
RECOMMEND == "recommend"
SEARCH == "search"
TRIVIA == "trivia"
DEBATE == "debate"
ACTOR_INFO == "actor_info"
DIRECTOR_INFO == "director_info"
GENRE_QUERY == "genre_query"
YEAR_QUERY == "year_query"
RATING_QUERY == "rating_query"
PLOT_QUERY == "plot_query"
UNKNOWN == "unknown"

Intent ==
    {GREETING, RECOMMENDATION, RECOMMEND, SEARCH, TRIVIA, DEBATE, ACTOR_INFO,
     DIRECTOR_INFO, GENRE_QUERY, YEAR_QUERY, RATING_QUERY, PLOT_QUERY, UNKNOWN}

(***************************************************************************)
(* IntentClassifier._extract_entities.  An EntityBag is a function from    *)
(* the keys it holds ("title", "genre", "year", "genres", "person_names")  *)
(* to their values; a key that is absent is not in its DOMAIN.             *)
(***************************************************************************)
NoEntities == [k \in {} |-> ""]

\* dict.get(key) is truthy
Truthy(entities, key) == key \in DOMAIN entities /\ entities[key] # ""

\* entities[key] = value
SetKey(entities, key, value) == (key :> value) @@ entities

\* re.findall(r'"([^"]+)"', message): the start of the first match, 0 if none
FirstQuoteStart(s) ==
    LET starts == {i \in 1..Len(s) :
                      /\ CharAt(s, i) = "\""
                      /\ i + 1 <= Len(s)
                      /\ CharAt(s, i + 1) # "\""
                      /\ \E j \in (i + 2)..Len(s) : CharAt(s, j) = "\""}
    IN IF starts = {} THEN 0
       ELSE CHOOSE i \in starts : \A k \in starts : i <= k

\* quoted[0]: the text of the first quoted span
FirstQuoted(s) ==
    LET i == FirstQuoteStart(s)
        j == CHOOSE k \in (i + 2)..Len(s) :
                 /\ CharAt(s, k) = "\""
                 /\ \A l \in (i + 1)..(k - 1) : CharAt(s, l) # "\""
    IN SubSeq(s, i + 1, j - 1)

\* the alternatives of the literal genre pattern, in the pattern's order
GenreNames ==
    <<"action", "comedy", "drama", "horror", "romance", "sci-fi",
      "science fiction", "thriller", "fantasy", "documentary", "animation",
      "crime", "mystery", "western", "biography", "musical", "adventure",
      "family", "war", "history", "sport">>

\* whether alternative w matches between word boundaries at position i
WordMatchAt(s, i, w) == MatchAt(s, i, w) /\ WB(s, i) /\ WB(s, i + Len(w))

\* re.search(r'\b(action|comedy|...)\b', message, re.I).group(1).lower(),
\* "" when the pattern does not match
GenreMatch(message) ==
    LET s == lower(message)
        hits == {i \in 1..Len(s) :
                    \E n \in 1..Len(GenreNames) : WordMatchAt(s, i, GenreNames[n])}
    IN IF hits = {} THEN ""
       ELSE LET i == CHOOSE h \in hits : \A k \in hits : h <= k
                n == CHOOSE m \in 1..Len(GenreNames) :
                         /\ WordMatchAt(s, i, GenreNames[m])
                         /\ \A l \in 1..(m - 1) : ~WordMatchAt(s, i, GenreNames[l])
            IN GenreNames[n]

\* the alternatives of the lead-phrase pattern, in the pattern's order
LeadPhrases ==
    <<"tell me about", "about", "plot of", "info on", "give me info about",
      "what is", "details about", "info about">>

\* the first position after i that holds no whitespace (Len(s) + 1 if none)
SkipSpaces(s, i) ==
    CHOOSE q \in i..(Len(s) + 1) :
        /\ \A k \in i..(q - 1) : CharAt(s, k) \in SpaceSet
        /\ (q = Len(s) + 1 \/ CharAt(s, q) \notin SpaceSet)

\* Where group 1 starts when alternative w is taken at position i (low is
\* s in lower case, the pattern being matched with re.I): \s+ is
\* greedy and gives one space back when nothing else is left for (.+?);
\* 0 when the pattern cannot match there.
LeadCaptureStart(s, low, i, w) ==
    IF ~MatchAt(low, i, w) THEN 0
    ELSE LET p == i + Len(w)
             q == SkipSpaces(s, p)
             cs == IF q <= Len(s) THEN q ELSE q - 1
         IN IF cs > p THEN cs ELSE 0

\* LeadCaptureEnd of a greedy (.+): at the end of the text
LeadCaptureEnd_greedy(s, cs) == Len(s)

\* where the lazy (.+?) that starts at cs ends: before the first '?' or '.'
\* that follows its first character, else at the end of the text
LeadCaptureEnd(s, cs) ==
    CHOOSE e \in cs..Len(s) :
        /\ (e = Len(s) \/ CharAt(s, e + 1) \in {"?", "."})
        /\ \A k \in cs..(e - 1) : CharAt(s, k + 1) \notin {"?", "."}

\* re.search(r'(?:tell me about|about|...)\s+(.+?)(?:\?|$|\.)', s, re.I):
\* [found, group1]
LeadMatch(s) ==
    LET low == lower(s)
        hits == {i \in 1..Len(s) :
                    \E n \in 1..Len(LeadPhrases) :
                        LeadCaptureStart(s, low, i, LeadPhrases[n]) # 0}
    IN IF hits = {} THEN [found |-> FALSE, group1 |-> ""]
       ELSE LET i == CHOOSE h \in hits : \A k \in hits : h <= k
                n == CHOOSE m \in 1..Len(LeadPhrases) :
                         /\ LeadCaptureStart(s, low, i, LeadPhrases[m]) # 0
                         /\ \A l \in 1..(m - 1) :
                                LeadCaptureStart(s, low, i, LeadPhrases[l]) = 0
                cs == LeadCaptureStart(s, low, i, LeadPhrases[n])
            IN [found |-> TRUE,
                group1 |-> SubSeq(s, cs, LeadCaptureEnd(s, cs))]

\* HasUpper looking at the first character only
HasUpper_at_start(s) == Len(s) > 0 /\ CharAt(s, 1) \in UpperSet

\* re.search(r'[A-Z]', message)
HasUpper(s) == \E i \in 1..Len(s) : CharAt(s, i) \in UpperSet

\* re.match(r'^[A-Z]', message.strip())
StartsUpper(s) == strip(s) # "" /\ Head(strip(s)) \in UpperSet

\* the lowercase words that Pattern 4 accepts inside a title
StopWords == {"the", "a", "an", "of", "in", "on", "at", "to", "for", "and", "or"}

\* all(word[0].isupper() or word.lower() in [...] for word in words), words
\* not empty
AllTitleWords(s) ==
    /\ WordStarts(s) # {}
    /\ \A w \in SplitWords(s) :
           Head(w[2]) \in UpperSet \/ lower(w[2]) \in StopWords

\* the value of one decimal digit
DigitValue(c) == (CHOOSE i \in 1..10 : CharAt(DigitChars, i) = c) - 1

\* int(s) for a string of decimal digits
RECURSIVE IntOf(_)
IntOf(s) ==
    IF s = "" THEN 0
    ELSE 10 * IntOf(SubSeq(s, 1, Len(s) - 1)) + DigitValue(CharAt(s, Len(s)))

\* whether \b(19\d{2}|20\d{2})\b matches at position i
YearAt(s, i) ==
    /\ i + 3 <= Len(s)
    /\ SubSeq(s, i, i + 1) \in {"19", "20"}
    /\ CharAt(s, i + 2) \in DigitSet
    /\ CharAt(s, i + 3) \in DigitSet
    /\ WB(s, i)
    /\ WB(s, i + 4)

\* re.findall(r'\b(19\d{2}|20\d{2})\b', message): the start of the first
\* match, 0 if none
FirstYearStart(s) ==
    LET hits == {i \in 1..Len(s) : YearAt(s, i)}
    IN IF hits = {} THEN 0 ELSE CHOOSE i \in hits : \A k \in hits : i <= k

\* genre_patterns: the canonical tags in the dict's order
GenreTags ==
    <<"action", "comedy", "drama", "horror", "romance", "sci-fi", "thriller",
      "fantasy", "documentary", "animation", "family", "war", "western",
      "musical">>

\* genre_patterns: the alternatives of each tag's \b(...)\b pattern
GenreKeywords ==
    [g \in {GenreTags[n] : n \in 1..Len(GenreTags)} |->
        CASE g = "action" ->
                {"action", "adventure", "fight", "battle", "exciting", "adrenaline",
                 "fast-paced", "intense", "superhero", "martial arts"}
          [] g = "comedy" ->
                {"comedy", "funny", "humor", "laugh", "hilarious", "comic", "witty",
                 "light-hearted", "amusing"}
          [] g = "drama" ->
                {"drama", "dramatic", "emotional", "touching", "heartbreaking",
                 "tear-jerker", "serious", "sad"}
          [] g = "horror" ->
                {"horror", "scary", "frightening", "terror", "creepy", "spooky",
                 "haunted", "zombie", "ghost"}
          [] g = "romance" ->
                {"romance", "romantic", "love", "relationship", "couple", "dating",
                 "wedding", "valentine"}
          [] g = "sci-fi" ->
                {"sci-fi", "science fiction", "futuristic", "space", "alien", "robot",
                 "technology", "cyberpunk", "dystopian"}
          [] g = "thriller" ->
                {"thriller", "suspense", "mystery", "psychological", "crime",
                 "detective", "investigation"}
          [] g = "fantasy" ->
                {"fantasy", "magical", "fairy tale", "wizard", "dragon", "medieval",
                 "mythical", "supernatural"}
          [] g = "documentary" ->
                {"documentary", "real", "true story", "based on", "biography",
                 "historical", "educational"}
          [] g = "animation" ->
                {"animation", "animated", "cartoon", "pixar", "disney", "anime",
                 "claymation"}
          [] g = "family" ->
                {"family", "kids", "children", "wholesome", "all ages", "disney",
                 "pixar"}
          [] g = "war" ->
                {"war", "military", "battle", "soldier", "combat", "wwii", "vietnam",
                 "conflict"}
          [] g = "western" ->
                {"western", "cowboy", "wild west", "frontier", "gunfighter", "saloon"}
          [] g = "musical" ->
                {"musical", "singing", "songs", "broadway", "opera", "music", "dance"}]

\* detected_genres: the tags whose pattern is found in message.lower(), in
\* the dict's order
RECURSIVE DetectedFrom(_, _)
DetectedFrom(low, n) ==
    IF n > Len(GenreTags) THEN <<>>
    ELSE (IF HasWord(low, GenreKeywords[GenreTags[n]]) THEN <<GenreTags[n]>> ELSE <<>>)
         \o DetectedFrom(low, n + 1)

DetectedGenres(message) == DetectedFrom(lower(message), 1)

\* where [A-Z][a-z]+ taken at position i ends, 0 when it does not match
CapWordEnd(s, i) ==
    IF /\ i >= 1
       /\ i + 1 <= Len(s)
       /\ CharAt(s, i) \in UpperSet
       /\ CharAt(s, i + 1) \in LowerSet
    THEN CHOOSE j \in (i + 1)..Len(s) :
             /\ \A k \in (i + 1)..j : CharAt(s, k) \in LowerSet
             /\ (j = Len(s) \/ CharAt(s, j + 1) \notin LowerSet)
    ELSE 0

\* where [A-Z][a-z]+(?: [A-Z][a-z]+){1,2} taken at position i ends, 0 when
\* it does not match
NameEnd(s, i) ==
    LET e1 == CapWordEnd(s, i)
        e2 == IF e1 # 0 /\ e1 + 1 <= Len(s) /\ CharAt(s, e1 + 1) = " "
              THEN CapWordEnd(s, e1 + 2) ELSE 0
        e3 == IF e2 # 0 /\ e2 + 1 <= Len(s) /\ CharAt(s, e2 + 1) = " "
              THEN CapWordEnd(s, e2 + 2) ELSE 0
    IN IF e2 = 0 THEN 0 ELSE IF e3 # 0 THEN e3 ELSE e2

\* re.findall(r'([A-Z][a-z]+(?: [A-Z][a-z]+){1,2})', message) from position
\* pos on: the matches, left to right, not overlapping
RECURSIVE NamesFrom(_, _)
NamesFrom(s, pos) ==
    LET hits == {i \in pos..Len(s) : NameEnd(s, i) # 0}
    IN IF hits = {} THEN <<>>
       ELSE LET i == CHOOSE h \in hits : \A k \in hits : h <= k
            IN <<SubSeq(s, i, NameEnd(s, i))>> \o NamesFrom(s, NameEnd(s, i) + 1)

PotentialNames(message) == NamesFrom(message, 1)

\* the part of _extract_entities after the title rules: year, genres and
\* person_names
ExtractRest(message, entities) ==
    LET y == FirstYearStart(message)
        e1 == IF y # 0
              THEN SetKey(entities, "year", IntOf(SubSeq(message, y, y + 3)))
              ELSE entities
        g == DetectedGenres(message)
        e2 == IF g # <<>> THEN SetKey(e1, "genres", g) ELSE e1
        n == PotentialNames(message)
    IN IF n # <<>> THEN SetKey(e2, "person_names", n) ELSE e2

\* IntentClassifier._extract_entities(message, intent)
_extract_entities(message, intent) ==
    LET e1 == IF FirstQuoteStart(message) # 0
              THEN SetKey(NoEntities, "title", FirstQuoted(message))
              ELSE NoEntities
        g == GenreMatch(message)
        e2 == IF g # "" THEN SetKey(e1, "genre", g) ELSE e1
        lead == LeadMatch(message)
        wc == WordCount(message)
    IN IF lead.found
       THEN \* Priority 1: the lead phrase; returns at once
            SetKey(e2, "title", strip(lead.group1))
       ELSE IF wc <= 5 /\ (intent = SEARCH \/ wc <= 3) /\ HasUpper(message)
       THEN \* Priority 2: a short message with a capital; returns at once
            SetKey(e2, "title", strip(message))
       ELSE IF ~Truthy(e2, "title") /\ StartsUpper(message) /\ wc >= 1 /\ wc <= 4
       THEN \* Priority 3: a short phrase that starts with a capital; returns
            SetKey(e2, "title", strip(message))
       ELSE LET e3 == IF ~Truthy(e2, "title") /\ wc <= 4 /\ AllTitleWords(message)
                      THEN SetKey(e2, "title", strip(message))
                      ELSE e2
            IN ExtractRest(message, e3)

(***************************************************************************)
(* IntentClassifier.patterns and IntentClassifier.classify.                *)
(*                                                                         *)
(* A rule of the pattern table is a record [kind, a, b, pre, suf]; the     *)
(* constructors below name the shapes the table's regular expressions      *)
(* take.  An alternative of a group is a sequence of literal parts, `.+`   *)
(* standing between two consecutive parts.                                 *)
(***************************************************************************)
Words(S) == {<<w>> : w \in S}

\* \b(a1|a2|...)\b
BW(A) == [kind |-> "bw", a |-> A, b |-> {}, pre |-> "", suf |-> ""]

\* \b(a1|a2|...)\b.*   (the trailing .* matches the empty text)
BWAny(A) == [kind |-> "bw", a |-> A, b |-> {}, pre |-> "", suf |-> ""]

\* \b(a1|a2|...)\b.*\b(b1|b2|...)\b
BW2(A, B) == [kind |-> "bw2", a |-> A, b |-> B, pre |-> "", suf |-> ""]

\* \bpre.*\b(b1|b2|...)\b
PreBW(p, B) == [kind |-> "prebw", a |-> {}, b |-> B, pre |-> p, suf |-> ""]

\* ^(a1|a2|...)$
Whole(S) == [kind |-> "whole", a |-> Words(S), b |-> {}, pre |-> "", suf |-> ""]

\* a literal text, found anywhere
Lit(t) == [kind |-> "lit", a |-> {}, b |-> {}, pre |-> t, suf |-> ""]

\* pre\w+?suf
LitW(p, t) == [kind |-> "litw", a |-> {}, b |-> {}, pre |-> p, suf |-> t]

\* "([^"]+)"
Quoted == [kind |-> "quoted", a |-> {}, b |-> {}, pre |-> "", suf |-> ""]

\* \b(19\d{2}|20\d{2})\b
YearToken == [kind |-> "year", a |-> {}, b |-> {}, pre |-> "", suf |-> ""]

\* the positions just after a match of parts[k..] that starts at position i
RECURSIVE PartsEnds(_, _, _, _)
PartsEnds(s, i, parts, k) ==
    IF ~MatchAt(s, i, parts[k]) THEN {}
    ELSE LET j == i + Len(parts[k])
         IN IF k = Len(parts) THEN {j}
            ELSE UNION {PartsEnds(s, j2, parts, k + 1) : j2 \in (j + 1)..(Len(s) + 1)}

\* the spans <<start, end + 1>> at which \b(a1|a2|...)\b matches in s
BoundedSpans(s, A) ==
    UNION {UNION {{<<i, e>> : e \in {x \in PartsEnds(s, i, alt, 1) : WB(s, x)}}
                  : alt \in A}
           : i \in {p \in 1..Len(s) : WB(s, p)}}

\* re.search(rule, s)
RuleMatches(rule, s) ==
    CASE rule.kind = "bw" -> BoundedSpans(s, rule.a) # {}
      [] rule.kind = "bw2" ->
            \E x \in BoundedSpans(s, rule.a) :
                \E y \in BoundedSpans(s, rule.b) : y[1] >= x[2]
      [] rule.kind = "prebw" ->
            \E i \in 1..Len(s) :
                /\ WB(s, i)
                /\ MatchAt(s, i, rule.pre)
                /\ \E y \in BoundedSpans(s, rule.b) : y[1] >= i + Len(rule.pre)
      [] rule.kind = "whole" -> <<s>> \in rule.a
      [] rule.kind = "lit" -> Contains(s, rule.pre)
      [] rule.kind = "litw" ->
            \E i \in 1..Len(s) :
                /\ MatchAt(s, i, rule.pre)
                /\ \E j \in (i + Len(rule.pre) + 1)..Len(s) :
                       /\ \A k \in (i + Len(rule.pre))..(j - 1) : IsWordAt(s, k)
                       /\ MatchAt(s, j, rule.suf)
      [] rule.kind = "quoted" -> FirstQuoteStart(s) # 0
      [] rule.kind = "year" -> FirstYearStart(s) # 0

\* self.patterns[Intent.GREETING]
Patterns_GREETING ==
    <<
      BW(Words({
          "hi", "hello", "hey", "greetings", "good morning", "good afternoon",
          "good evening", "sup", "yo"})),
      Whole({"hi", "hello", "hey", "sup", "yo"}),
      BW(Words({
          "how are you", "what's up", "whats up"}))
    >>

\* self.patterns[Intent.RECOMMEND]
Patterns_RECOMMEND ==
    <<
      BW(Words({
          "recommend", "suggest", "advise", "propose", "pick for me",
          "choose for me"})),
      BW(Words({
          "what should i watch", "what to watch", "something to watch",
          "what's good to watch", "what's popular"})),
      BW(Words({
          "good movie", "great film", "best movie", "top movie", "must-see",
          "worth watching", "hidden gem", "underrated", "overrated"})),
      BW(Words({
          "movie recommendation", "film recommendation", "movie list",
          "top picks", "favorites"})),
      BW(Words({
          "movies like", "similar to", "in the style of", "reminds me of",
          "if I liked", "if I enjoyed"})),
      BW2(Words({
          "i want to watch", "looking for", "need something", "show me",
          "find me", "give me", "suggest me"}),
      Words({
          "movie", "film"})),
      BW(Words({
          "any suggestions", "help me find", "got anything", "anything fun",
          "anything new", "anything trending", "anything classic",
          "anything old", "anything recent", "anything popular"})),
      BW(Words({
          "i'm bored", "bored", "nothing to watch", "need entertainment",
          "want to relax", "want to laugh", "want to cry",
          "want to be scared", "want to be inspired"})),
      BW2(Words({
          "tonight", "weekend", "date night", "with friends", "family night",
          "movie night", "rainy day", "sick day", "holiday", "vacation"}),
      Words({
          "movie", "watch"})),
      BW(Words({
          "what's good", "whats good", "anything good", "what's trending",
          "trending now", "new releases", "recently released",
          "classic movies", "old movies", "timeless", "iconic", "cult classic"})),
      BW2(Words({
          "got any", "have any", "know any", "can you recommend",
          "can you suggest"}),
      Words({
          "movie", "film"})),
      LitW("any good ", " films"),
      LitW("got any ", " movies"),
      Lit("what should i watch"),
      Lit("what do you recommend"),
      Lit("pick a movie for me"),
      Lit("give me something to watch"),
      Lit("anything worth watching")
    >>

\* self.patterns[Intent.SEARCH]
Patterns_SEARCH ==
    <<
      BW2(Words({
          "find", "search", "look for", "tell me about", "info about",
          "details about", "show info", "show details", "show plot",
          "show cast", "show director", "show rating", "show reviews"}),
      Words({
          "movie", "film", "about", "on", "regarding"})),
      BW2(Words({
          "what is", "who is", "when was", "where was", "who stars in",
          "who directed", "who made", "who created", "who acted in",
          "who played", "who's in", "who's starring"}),
      Words({
          "movie", "film", "about", "on", "regarding"})),
      Quoted,
      BW2(Words({
          "have you seen", "do you know", "heard of", "tell me about",
          "give me info", "give me details", "what can you tell me",
          "give me more info", "give me more details",
          "what else can you say", "elaborate", "expand", "explain"}),
      Words({
          "movie", "film", "about", "on", "regarding"})),
      BW(Words({
          "is there a movie", "movie called", "film called", "movie named",
          "film named"})),
      BWAny(Words({
          "who stars in", "who directed", "who made", "who created",
          "who acted in", "who played", "who's in", "who's starring"})),
      BW(Words({
          "plot of", "story of", "summary of", "synopsis of",
          "what happens in"})
      \cup {<<"what is ", " about">>,
            <<"what can you tell me about ", "">>}),
      BW({<<"who is in ", "">>,
       <<"who directed ", "">>,
       <<"when was ", " released">>,
       <<"give me details about ", "">>})
    >>

\* self.patterns[Intent.TRIVIA]
Patterns_TRIVIA ==
    <<
      BW(Words({
          "trivia", "fact", "facts", "did you know", "behind the scenes",
          "interesting", "random"})),
      BW(Words({
          "tell me something", "fun fact", "movie fact", "cool fact",
          "interesting fact", "any fun facts", "any trivia",
          "any interesting details", "any secrets", "any easter eggs",
          "any hidden details"})),
      BW(Words({
          "surprise me", "something interesting", "blow my mind",
          "anything else", "what else", "more info", "more details",
          "elaborate", "expand", "explain"})),
      BW(Words({
          "easter egg", "hidden detail", "secret"}))
    >>

\* self.patterns[Intent.DEBATE]
Patterns_DEBATE ==
    <<
      BW(Words({
          "debate", "argue", "discuss", "opinion", "think", "believe",
          "disagree"})),
      BW(Words({
          "better than", "worse than", "compare", "vs", "versus"})),
      BW(Words({
          "overrated", "underrated", "best", "worst"})),
      BW(Words({
          "controversial", "unpopular opinion", "hot take"})),
      BW2(Words({
          "fight", "battle", "showdown", "face-off"}),
      Words({
          "movie", "film"}))
    >>

\* self.patterns[Intent.ACTOR_INFO]
Patterns_ACTOR_INFO ==
    <<
      BW(Words({
          "actor", "actress", "star", "starring", "cast", "who plays",
          "who stars", "who's in"})),
      BW(Words({
          "acted in", "appears in", "stars in", "featured in"})),
      BW(Words({
          "main character", "lead actor", "protagonist"}))
    >>

\* self.patterns[Intent.DIRECTOR_INFO]
Patterns_DIRECTOR_INFO ==
    <<
      BW(Words({
          "director", "directed by", "filmmaker", "made by", "created by"})),
      BW(Words({
          "who directed", "who made", "who created"}))
    >>

\* self.patterns[Intent.GENRE_QUERY]
Patterns_GENRE_QUERY ==
    <<
      BW(Words({
          "action", "comedy", "drama", "horror", "romance", "sci-fi",
          "science fiction", "thriller", "fantasy", "documentary",
          "animation", "crime", "mystery", "western", "biography", "musical",
          "adventure", "family", "war", "history", "sport"})),
      BW(Words({
          "funny", "hilarious", "laugh", "humor", "comic"})),
      BW(Words({
          "scary", "frightening", "terrifying", "creepy", "spooky"})),
      BW(Words({
          "romantic", "love", "relationship", "couple", "dating"})),
      BW(Words({
          "exciting", "adrenaline", "fast-paced", "intense"})),
      BW(Words({
          "sad", "emotional", "touching", "heartbreaking", "tear-jerker"})),
      BW(Words({
          "futuristic", "space", "alien", "robot", "technology"})),
      BW(Words({
          "magical", "fantasy", "wizard", "fairy", "mythical"})),
      BW(Words({
          "real", "true story", "documentary", "based on"})),
      BW(Words({
          "animated", "cartoon", "pixar", "disney"})),
      BW(Words({
          "genre", "type", "category", "kind"})),
      BW(Words({
          "mood for", "in the mood", "feel like"}))
    >>

\* self.patterns[Intent.YEAR_QUERY]
Patterns_YEAR_QUERY ==
    <<
      BW(Words({
          "year", "when", "released", "came out", "made in", "from"})),
      YearToken,
      BW(Words({
          "recent", "new", "latest", "old", "classic", "vintage"})),
      BW(Words({
          "90s", "80s", "70s", "60s", "2000s", "2010s", "2020s"}))
    >>

\* self.patterns[Intent.RATING_QUERY]
Patterns_RATING_QUERY ==
    <<
      BW(Words({
          "rating", "score", "imdb", "rotten tomatoes", "critics", "review",
          "reviews"})),
      BW(Words({
          "good", "bad", "worth watching", "any good"})),
      BW(Words({
          "popular", "highly rated", "top rated", "best"}))
    >>

\* self.patterns[Intent.PLOT_QUERY]
Patterns_PLOT_QUERY ==
    <<
      BW(Words({
          "plot", "story", "about", "synopsis", "summary", "premise"})),
      PreBW("what", Words({
          "happens", "about", "is it"})),
      BW(Words({
          "storyline", "narrative", "what's it about"}))
    >>


\* PatternIntents with the plot rules written first in the table
PatternIntents_plot_first ==
    <<PLOT_QUERY, GREETING, RECOMMEND, SEARCH, TRIVIA, DEBATE, ACTOR_INFO,
      DIRECTOR_INFO, GENRE_QUERY, YEAR_QUERY, RATING_QUERY>>

\* the keys of self.patterns, in the dict's order
PatternIntents ==
    <<GREETING, RECOMMEND, SEARCH, TRIVIA, DEBATE, ACTOR_INFO, DIRECTOR_INFO,
      GENRE_QUERY, YEAR_QUERY, RATING_QUERY, PLOT_QUERY>>

\* self.patterns
Patterns ==
    [i \in {PatternIntents[n] : n \in 1..Len(PatternIntents)} |->
        CASE i = GREETING -> Patterns_GREETING
          [] i = RECOMMEND -> Patterns_RECOMMEND
          [] i = SEARCH -> Patterns_SEARCH
          [] i = TRIVIA -> Patterns_TRIVIA
          [] i = DEBATE -> Patterns_DEBATE
          [] i = ACTOR_INFO -> Patterns_ACTOR_INFO
          [] i = DIRECTOR_INFO -> Patterns_DIRECTOR_INFO
          [] i = GENRE_QUERY -> Patterns_GENRE_QUERY
          [] i = YEAR_QUERY -> Patterns_YEAR_QUERY
          [] i = RATING_QUERY -> Patterns_RATING_QUERY
          [] i = PLOT_QUERY -> Patterns_PLOT_QUERY]

\* the number of rules of one intent that match message_lower
Score(low, intent) ==
    Cardinality({n \in 1..Len(Patterns[intent]) : RuleMatches(Patterns[intent][n], low)})

\* the count of every intent of the table (0 for an intent that classify
\* leaves out of intent_scores)
Scores(message) ==
    LET low == strip(lower(message))
    IN [i \in {PatternIntents[n] : n \in 1..Len(PatternIntents)} |-> Score(low, i)]

\* sum(intent_scores.values())
RECURSIVE SumScores(_, _)
SumScores(sc, n) ==
    IF n = 0 THEN 0 ELSE sc[PatternIntents[n]] + SumScores(sc, n - 1)

\* BestIntent without the branch of the empty intent_scores
BestIntent_of_table(sc) ==
    LET n == CHOOSE m \in 1..Len(PatternIntents) :
                 /\ \A l \in 1..Len(PatternIntents) :
                        sc[PatternIntents[l]] <= sc[PatternIntents[m]]
                 /\ \A l \in 1..(m - 1) :
                        sc[PatternIntents[l]] < sc[PatternIntents[m]]
    IN PatternIntents[n]

\* max(intent_scores.keys(), key=...): the first key, in the dict's order,
\* that has the greatest count; UNKNOWN when intent_scores is empty
BestIntent(sc) ==
    IF \A n \in 1..Len(PatternIntents) : sc[PatternIntents[n]] = 0
    THEN UNKNOWN
    ELSE LET n == CHOOSE m \in 1..Len(PatternIntents) :
                      /\ \A l \in 1..Len(PatternIntents) :
                             sc[PatternIntents[l]] <= sc[PatternIntents[m]]
                      /\ \A l \in 1..(m - 1) :
                             sc[PatternIntents[l]] < sc[PatternIntents[m]]
         IN PatternIntents[n]

\* Max1 adding one to every total
Max1_plus_one(total) == total + 1

\* max(1, total)
Max1(total) == IF total >= 1 THEN total ELSE 1

\* IntentClassifier.classify(message).  The confidence, a quotient of two
\* counts, is kept as the pair <<numerator, denominator>>.
classify(message) ==
    LET sc == Scores(message)
        best_intent == BestIntent(sc)
    IN [intent |-> best_intent,
        confidence |-> <<IF best_intent = UNKNOWN THEN 0 ELSE sc[best_intent],
                         Max1(SumScores(sc, Len(PatternIntents)))>>,
        entities |-> _extract_entities(message, best_intent),
        original_message |-> message]

(***************************************************************************)
(* The catalog (backend/movie_api_service.py), as far as a chat turn sees  *)
(* it: a call returns a result or its empty value ([] or None, which is    *)
(* also what it returns when the provider fails or times out).             *)
(***************************************************************************)

\* the keys of genre_map in MovieAPIService._get_genre_id
GenreMapKeys ==
    {"action", "adventure", "animation", "comedy", "crime", "documentary",
     "drama", "family", "fantasy", "history", "horror", "music", "mystery",
     "romance", "science fiction", "sci-fi", "thriller", "war", "western"}

\* _get_genre_id(genre_name) is not None
HasGenreId(genre_name) == lower(genre_name) \in GenreMapKeys

\* get_genre_recommendations(genre, ...) is not empty, the provider having
\* answered as `answer` says: without a genre id the provider is not asked
GenreRecommendationsFound(genre, answer) == HasGenreId(genre) /\ answer

\* the title of the movie the catalog lists first for a genre
ListedTitle == "Heat"

\* the name under which the catalog files a person
PersonName(name) == name

\* the title under which the catalog files the first result of a search
MovieTitle(query) == query

(***************************************************************************)
(* ResponseGenerator (backend/response_generator.py).  A reply's text is   *)
(* kept as [template, len]: the template that rendered it and the number   *)
(* of characters of the text.  A ChatResponse is                           *)
(* [content, data, suggestions, response_type, calls]: data by the keys of *)
(* its dict ({} for None), suggestions <<>> for None, response_type "None" *)
(* for None; calls lists the catalog operations the handler awaited.       *)
(*                                                                         *)
(* What the catalog and the random generator answer during one turn is a   *)
(* record c: results (how many movies search_movies returns: 0, 1 or 2 for *)
(* several), details (get_movie_details is not None), genre and popular    *)
(* (the provider lists movies for the asked genre, for "action"), trivia   *)
(* (get_movie_trivia is not empty), person (0: search_person is None, 1: a *)
(* person without directed_movies, 2: one with), rnd (the random draw).    *)
(***************************************************************************)
Content(t, n) == [template |-> t, len |-> n]

\* the length of a text rendered from catalog data (a list of movies, a
\* person's page): longer than any cut the program applies
DataLen == 250

ChatResponse(content, data, suggestions, response_type, calls) ==
    [content |-> content, data |-> data, suggestions |-> suggestions,
     response_type |-> response_type, calls |-> calls]

\* self.greeting_responses
GreetingResponses ==
    <<Content("greeting_1", 160), Content("greeting_2", 158),
      Content("greeting_3", 164)>>

\* self.unknown_responses
UnknownResponses ==
    <<Content("unknown_1", 93), Content("unknown_2", 137),
      Content("unknown_3", 120)>>

\* debate_topics, by the text of each topic's question
DebateTopics ==
    <<Content("debate_marvel_dc", 108), Content("debate_sequels", 101),
      Content("debate_cinema", 131), Content("debate_effects", 89)>>

\* random.choice(seq), the generator having drawn rnd
RandomChoice(seq, rnd) == seq[(rnd % Len(seq)) + 1]

\* ResponseGenerator._handle_greeting
_handle_greeting(rnd) ==
    ChatResponse(RandomChoice(GreetingResponses, rnd), {},
                 <<"Recommend me a movie", "Tell me some movie trivia",
                   "Find action movies from 2023",
                   "What's a good comedy to watch?">>,
                 "None", <<>>)

\* ResponseGenerator._handle_unknown
_handle_unknown(rnd) ==
    ChatResponse(RandomChoice(UnknownResponses, rnd), {},
                 <<"Recommend a movie", "Show me trending movies",
                   "Tell me about [movie title]", "Who stars in [movie title]",
                   "Tell me movie trivia", "Find movies by genre",
                   "Give me a classic movie">>,
                 "None", <<>>)

\* the name the catalog gives as the director of a movie it has no
\* director for
NoDirector == "Unknown"

\* ResponseGenerator._handle_recommendation
_handle_recommendation(entities, c) ==
    LET byGenre == "genres" \in DOMAIN entities
        genre == entities["genres"][1]
        calls1 == IF byGenre THEN <<"get_genre_recommendations">> ELSE <<>>
        calls2 == calls1 \o <<"get_genre_recommendations">>
    IN IF byGenre /\ GenreRecommendationsFound(genre, c.genre)
       THEN ChatResponse(Content("recommend_genre", DataLen), {"movies", "genre"},
                         <<"Tell me more about " \o ListedTitle,
                           "More " \o genre \o " movies",
                           "Different genre recommendations">>,
                         "recommendations", calls1)
       ELSE IF GenreRecommendationsFound("action", c.popular)
       THEN ChatResponse(Content("recommend_popular", DataLen), {},
                         <<"Comedy movies", "Horror films", "Romantic movies",
                           "Sci-fi recommendations">>,
                         "recommendations", calls2)
       ELSE ChatResponse(Content("recommend_ask_genre", 112), {},
                         <<"Action movies", "Comedy films", "Drama recommendations">>,
                         "recommendations", calls2)

\* ResponseGenerator._handle_search
_handle_search(entities, c) ==
    IF "movie_title" \in DOMAIN entities
    THEN LET title == entities["movie_title"]
         IN IF c.results = 1 /\ c.details
            THEN ChatResponse(Content("search_details", DataLen), {"movie"},
                              <<"Movies like " \o MovieTitle(title),
                                "More " \o NoDirector \o " films",
                                "Trivia about this movie">>,
                              "None", <<"search_movies", "get_movie_details">>)
            ELSE IF c.results > 1
            THEN ChatResponse(Content("search_several", DataLen), {"movies"},
                              <<"Tell me about " \o MovieTitle(title),
                                "Tell me about " \o ListedTitle>>,
                              "None", <<"search_movies">>)
            ELSE ChatResponse(Content("search_not_found", 96 + Len(title)), {}, <<>>,
                              "None",
                              IF c.results = 1
                              THEN <<"search_movies", "get_movie_details">>
                              ELSE <<"search_movies">>)
    ELSE ChatResponse(Content("search_ask_title", 84), {}, <<>>, "None", <<>>)

\* the tail of _handle_trivia: a fact about a movie picked at random among
\* the popular ones, after `calls`
RandomTrivia(c, calls) ==
    IF GenreRecommendationsFound("action", c.popular) /\ c.trivia
    THEN ChatResponse(Content("trivia_random", DataLen), {},
                      <<"More movie trivia", "Tell me about " \o ListedTitle,
                        "Random movie facts">>,
                      "trivia",
                      calls \o <<"get_genre_recommendations", "get_movie_trivia">>)
    ELSE ChatResponse(Content("trivia_ask_title", 73), {}, <<>>, "trivia",
                      calls \o <<"get_genre_recommendations">>
                            \o (IF GenreRecommendationsFound("action", c.popular)
                                THEN <<"get_movie_trivia">> ELSE <<>>))

\* ResponseGenerator._handle_trivia
_handle_trivia(entities, c) ==
    IF "movie_title" \in DOMAIN entities
    THEN IF c.results > 0 /\ c.trivia
         THEN ChatResponse(Content("trivia_movie", DataLen), {},
                           <<"More about " \o MovieTitle(entities["movie_title"]),
                             "Random movie trivia",
                             "Movies like " \o MovieTitle(entities["movie_title"])>>,
                           "trivia", <<"search_movies", "get_movie_trivia">>)
         ELSE RandomTrivia(c, IF c.results > 0
                              THEN <<"search_movies", "get_movie_trivia">>
                              ELSE <<"search_movies">>)
    ELSE RandomTrivia(c, <<>>)

\* ResponseGenerator._handle_actor_info
_handle_actor_info(entities, c) ==
    IF "person_names" \in DOMAIN entities /\ c.person > 0
    THEN ChatResponse(Content("actor_info", DataLen), {"person"},
                      <<"More " \o PersonName(entities["person_names"][1]) \o " movies",
                        "Tell me about their latest film", "Other popular actors">>,
                      "None", <<"search_person">>)
    ELSE ChatResponse(Content("actor_ask_name", 78), {}, <<>>, "None",
                      IF "person_names" \in DOMAIN entities
                      THEN <<"search_person">> ELSE <<>>)

\* ResponseGenerator._handle_director_info
_handle_director_info(entities, c) ==
    IF "person_names" \in DOMAIN entities /\ c.person > 1
    THEN ChatResponse(Content("director_info", DataLen), {"director"},
                      <<"More " \o PersonName(entities["person_names"][1]) \o " films",
                        "Tell me about their best movie", "Other famous directors">>,
                      "None", <<"search_person">>)
    ELSE ChatResponse(Content("director_ask_name", 73), {}, <<>>, "None",
                      IF "person_names" \in DOMAIN entities
                      THEN <<"search_person">> ELSE <<>>)

\* ResponseGenerator._handle_genre_query
_handle_genre_query(entities, c) ==
    IF "genres" \in DOMAIN entities
       /\ GenreRecommendationsFound(entities["genres"][1], c.genre)
    THEN ChatResponse(Content("genre_list", DataLen), {"movies", "genre"},
                      <<"More " \o entities["genres"][1] \o " movies",
                        "Best " \o entities["genres"][1] \o " movies of 2023",
                        "Different genre">>,
                      "recommendations", <<"get_genre_recommendations">>)
    ELSE ChatResponse(Content("genre_ask", 95), {}, <<>>, "recommendations",
                      IF "genres" \in DOMAIN entities
                      THEN <<"get_genre_recommendations">> ELSE <<>>)

\* ResponseGenerator._handle_plot_query
_handle_plot_query(entities, c) ==
    IF "movie_title" \in DOMAIN entities /\ c.results > 0
    THEN ChatResponse(Content("plot", DataLen), {},
                      <<"Cast of " \o MovieTitle(entities["movie_title"]),
                        "Movies like " \o MovieTitle(entities["movie_title"]),
                        "More details about this movie">>,
                      "None", <<"search_movies">>)
    ELSE ChatResponse(Content("plot_ask_title", 76), {}, <<>>, "None",
                      IF "movie_title" \in DOMAIN entities
                      THEN <<"search_movies">> ELSE <<>>)

\* ResponseGenerator._handle_rating_query
_handle_rating_query(entities, c) ==
    IF "movie_title" \in DOMAIN entities /\ c.results > 0 /\ c.details
    THEN ChatResponse(Content("rating", DataLen), {},
                      <<"Tell me more about " \o MovieTitle(entities["movie_title"]),
                        "Movies like " \o MovieTitle(entities["movie_title"]),
                        "Other highly rated movies">>,
                      "None", <<"search_movies", "get_movie_details">>)
    ELSE ChatResponse(Content("rating_ask_title", 72), {}, <<>>, "None",
                      IF "movie_title" \notin DOMAIN entities THEN <<>>
                      ELSE IF c.results > 0
                      THEN <<"search_movies", "get_movie_details">>
                      ELSE <<"search_movies">>)

\* the answers the topic of a general debate offers
DebateOptions(topic) ==
    CASE topic.template = "debate_marvel_dc" ->
            <<"Marvel has better storytelling", "DC has more depth",
              "Both are great in different ways">>
      [] topic.template = "debate_sequels" ->
            <<"Sequels often ruin originals", "Good sequels enhance the story",
              "It depends on the execution">>
      [] topic.template = "debate_cinema" ->
            <<"Nothing beats the cinema", "Streaming is more convenient",
              "Both have their place">>
      [] topic.template = "debate_effects" ->
            <<"Practical effects feel more real", "CGI allows more creativity",
              "Best when combined well">>

\* ResponseGenerator._handle_debate
_handle_debate(entities, c) ==
    IF "movie_title" \in DOMAIN entities /\ c.results > 0
    THEN LET t == MovieTitle(entities["movie_title"])
         IN ChatResponse(Content("debate_movie", DataLen), {"movie", "debate_type"},
                         <<t \o " is overrated", t \o " is underrated",
                           t \o " is perfectly rated", "Compare it to similar movies">>,
                         "debate", <<"search_movies">>)
    ELSE LET topic == RandomChoice(DebateTopics, c.rnd)
         IN ChatResponse(topic, {"debate_topic"},
                         DebateOptions(topic) \o <<"Different debate topic">>,
                         "debate",
                         IF "movie_title" \in DOMAIN entities
                         THEN <<"search_movies">> ELSE <<>>)

\* the calls of the catalog a turn can make, by the answer they give:
\* results and direct are calls of search_movies (by a handler, by the
\* direct branch of chat_endpoint), details of get_movie_details, trivia of
\* get_movie_trivia (which calls get_movie_details), genre and popular of
\* get_genre_recommendations, person of search_person
CatalogCalls ==
    {"results", "details", "genre", "popular", "trivia", "person", "direct"}

\* what the operations of the catalog return to a handler when the catalog
\* would answer c and the calls c.failed fail (connection error, timeout,
\* status other than 200): the except branch and the else branch of each
\* operation return [] or None, and nothing is raised
Received(c) ==
    [results |-> IF "results" \in c.failed THEN 0 ELSE c.results,
     details |-> IF "details" \in c.failed THEN FALSE ELSE c.details,
     genre |-> IF "genre" \in c.failed THEN FALSE ELSE c.genre,
     popular |-> IF "popular" \in c.failed THEN FALSE ELSE c.popular,
     trivia |-> IF "trivia" \in c.failed THEN FALSE ELSE c.trivia,
     person |-> IF "person" \in c.failed THEN 0 ELSE c.person,
     rnd |-> c.rnd]

\* ResponseGenerator.generate_response(intent_result), the catalog
\* answering c: the dispatch on the intent.  No handler raises in the model:
\* each reads only keys it has tested for, and the catalog's operations
\* return their empty value on a failure.
generate_response(intent_result, c) ==
    LET intent == intent_result.intent
        entities == intent_result.entities
        r == Received(c)
    IN CASE intent = GREETING -> _handle_greeting(r.rnd)
         [] intent = RECOMMEND -> _handle_recommendation(entities, r)
         [] intent = SEARCH -> _handle_search(entities, r)
         [] intent = TRIVIA -> _handle_trivia(entities, r)
         [] intent = DEBATE -> _handle_debate(entities, r)
         [] intent = ACTOR_INFO -> _handle_actor_info(entities, r)
         [] intent = DIRECTOR_INFO -> _handle_director_info(entities, r)
         [] intent = GENRE_QUERY -> _handle_genre_query(entities, r)
         [] intent = PLOT_QUERY -> _handle_plot_query(entities, r)
         [] intent = RATING_QUERY -> _handle_rating_query(entities, r)
         [] OTHER -> _handle_unknown(r.rnd)

(***************************************************************************)
(* The chat endpoint and the conversation store (backend/main.py).         *)
(***************************************************************************)

\* how many entries of `messages` a turn keeps (messages[-10:])
MaxMessages == 10

\* how many recent titles and genres a turn keeps ([-5:])
MaxRecent == 5

\* how many characters of a reply the log keeps (content[:100])
MaxBotChars == 100

\* a message of at most this many words is compared with the recent titles
MaxTitleWords == 3

\* the vague follow-ups of chat_endpoint
VaguePhrases ==
    {"tell me more about these movies", "tell me more", "more info on these",
     "details on these movies", "what else?", "anything else?", "more info",
     "more details", "elaborate", "expand", "explain"}

\* LastN keeping the oldest n elements, seq[:n]
LastN_oldest(seq, n) ==
    IF Len(seq) <= n THEN seq ELSE SubSeq(seq, 1, n)

\* seq[-n:]
LastN(seq, n) ==
    IF Len(seq) <= n THEN seq ELSE SubSeq(seq, Len(seq) - n + 1, Len(seq))

\* ', '.join(seq)
RECURSIVE JoinComma(_)
JoinComma(seq) ==
    IF seq = <<>> THEN ""
    ELSE IF Len(seq) = 1 THEN seq[1]
    ELSE seq[1] \o ", " \o JoinComma(Tail(seq))

\* request.conversation_id or "default"
ConversationId(requested) == IF requested = "" THEN "default" ELSE requested

\* the state chat_endpoint gives a conversation it has not seen
NewConversation(now) ==
    [messages |-> <<>>,
     context |-> [recent_titles |-> <<>>, recent_genres |-> <<>>],
     created_at |-> now]

\* EnsureConversation creating the conversation of the default identifier
\* as well
EnsureConversation_and_default(convs, conversation_id, now) ==
    LET convs1 == IF conversation_id \in DOMAIN convs THEN convs
                  ELSE (conversation_id :> NewConversation(now)) @@ convs
    IN IF "default" \in DOMAIN convs1 THEN convs1
       ELSE ("default" :> NewConversation(now)) @@ convs1

\* if conversation_id not in conversations: conversations[conversation_id] = ...
EnsureConversation(convs, conversation_id, now) ==
    IF conversation_id \in DOMAIN convs THEN convs
    ELSE (conversation_id :> NewConversation(now)) @@ convs

\* RecentTitleMatch taking the last recent title that matches
RecentTitleMatch_last(user_message, recent_titles) ==
    LET hit(t) == \/ Contains(lower(t), lower(user_message))
                  \/ Contains(lower(user_message), lower(t))
        hits == {n \in 1..Len(recent_titles) : hit(recent_titles[n])}
    IN IF hits = {} THEN ""
       ELSE recent_titles[CHOOSE n \in hits : \A m \in hits : n >= m]

\* the first recent title that contains the message or is contained in it,
\* letter case apart; "" when there is none
RecentTitleMatch(user_message, recent_titles) ==
    LET hit(t) == \/ Contains(lower(t), lower(user_message))
                  \/ Contains(lower(user_message), lower(t))
        hits == {n \in 1..Len(recent_titles) : hit(recent_titles[n])}
    IN IF hits = {} THEN ""
       ELSE recent_titles[CHOOSE n \in hits : \A m \in hits : n <= m]

\* movie_title of chat_endpoint: the capture of the lead phrase (of
\* tell_about_match, the result of the search for it in user_message), else
\* for a short message the recent title it matches; "" for None
DirectMovieTitle(user_message, tell_about_match, convs, conversation_id) ==
    IF tell_about_match.found THEN strip(tell_about_match.group1)
    ELSE IF WordCount(user_message) <= MaxTitleWords
    THEN RecentTitleMatch(user_message,
                          convs[conversation_id].context.recent_titles)
    ELSE ""

\* ChatResponseModel(...), with the status the caller receives.  Every
\* return of chat_endpoint passes processing_time, the wall time since the
\* turn began: the model keeps that it is passed, not how long the turn took.
ChatResponseModel(response, conversation_id, suggestions, data, intent, response_type) ==
    [status |-> 200, response |-> response, conversation_id |-> conversation_id,
     suggestions |-> suggestions, data |-> data, intent |-> intent,
     response_type |-> response_type, processing_time |-> "elapsed"]

\* the reply of the except branch of chat_endpoint
ErrorReply(conversation_id) ==
    ChatResponseModel(Content("error_apology", 82), conversation_id,
                      <<"Try a different question", "Search for a movie",
                        "Ask for recommendations">>,
                      {}, "error", "None")

\* the reply of the direct movie-info branch for the movie found
MovieInfoReply(conversation_id, title) ==
    ChatResponseModel(Content("movie_info", DataLen), conversation_id,
                      <<"More movies like " \o title, "Trivia about " \o title,
                        "Recommend something else">>,
                      {"movie"}, "movie_info", "movie_info")

\* [f"Tell me about {t}" for t in recent_titles] and its like
RECURSIVE Prefixed(_, _, _)
Prefixed(pre, seq, suf) ==
    IF seq = <<>> THEN <<>>
    ELSE <<pre \o seq[1] \o suf>> \o Prefixed(pre, Tail(seq), suf)

\* ClarificationReply asking about the recent genres before the recent
\* titles
ClarificationReply_genres_first(conversation_id, ctx) ==
    IF ctx.recent_genres # <<>>
    THEN ChatResponseModel(
             Content("clarify_genres", 100 + Len(JoinComma(ctx.recent_genres))),
             conversation_id,
             Prefixed("Recommend more ", ctx.recent_genres, " movies"),
             {}, "clarification", "None")
    ELSE IF ctx.recent_titles # <<>>
    THEN ChatResponseModel(
             Content("clarify_titles", 84 + Len(JoinComma(ctx.recent_titles))),
             conversation_id, Prefixed("Tell me about ", ctx.recent_titles, ""),
             {}, "clarification", "None")
    ELSE ChatResponseModel(Content("clarify_generic", 73), conversation_id, <<>>,
                           {}, "clarification", "None")

\* the reply of the vague follow-up branch
ClarificationReply(conversation_id, ctx) ==
    IF ctx.recent_titles # <<>>
    THEN ChatResponseModel(
             Content("clarify_titles", 84 + Len(JoinComma(ctx.recent_titles))),
             conversation_id, Prefixed("Tell me about ", ctx.recent_titles, ""),
             {}, "clarification", "None")
    ELSE IF ctx.recent_genres # <<>>
    THEN ChatResponseModel(
             Content("clarify_genres", 100 + Len(JoinComma(ctx.recent_genres))),
             conversation_id,
             Prefixed("Recommend more ", ctx.recent_genres, " movies"),
             {}, "clarification", "None")
    ELSE ChatResponseModel(Content("clarify_generic", 73), conversation_id, <<>>,
                           {}, "clarification", "None")

\* RecordTurn without the cut of the rolling windows to their last entries
RecordTurn_uncut(convs, conversation_id, user_message, intent_result, now, turn) ==
    LET convs1 == EnsureConversation(convs, conversation_id, now)
        conv == convs1[conversation_id]
        entities == intent_result.entities
        titles == IF Truthy(entities, "title")
                  THEN Append(conv.context.recent_titles, entities["title"])
                  ELSE conv.context.recent_titles
        genres == IF Truthy(entities, "genre")
                  THEN Append(conv.context.recent_genres, entities["genre"])
                  ELSE conv.context.recent_genres
        entry == [user |-> user_message, timestamp |-> now,
                  intent |-> intent_result.intent, entities |-> entities,
                  turn |-> turn]
    IN (conversation_id :>
            [messages |-> LastN(Append(conv.messages, entry), MaxMessages),
             context |-> [recent_titles |-> titles, recent_genres |-> genres],
             created_at |-> conv.created_at]) @@ convs1

\* lines 278-307: the conversation is created if absent, the turn's title
\* and genre enter the rolling windows, the user entry is appended and the
\* log cut.  The field `turn` of an entry is not in the program: it names
\* the turn that wrote the entry.
RecordTurn(convs, conversation_id, user_message, intent_result, now, turn) ==
    LET convs1 == EnsureConversation(convs, conversation_id, now)
        conv == convs1[conversation_id]
        entities == intent_result.entities
        titles == IF Truthy(entities, "title")
                  THEN LastN(Append(conv.context.recent_titles, entities["title"]),
                             MaxRecent)
                  ELSE conv.context.recent_titles
        genres == IF Truthy(entities, "genre")
                  THEN LastN(Append(conv.context.recent_genres, entities["genre"]),
                             MaxRecent)
                  ELSE conv.context.recent_genres
        entry == [user |-> user_message, timestamp |-> now,
                  intent |-> intent_result.intent, entities |-> entities,
                  turn |-> turn]
    IN (conversation_id :>
            [messages |-> LastN(Append(conv.messages, entry), MaxMessages),
             context |-> [recent_titles |-> titles, recent_genres |-> genres],
             created_at |-> conv.created_at]) @@ convs1

\* content[:100] + "..." if len(content) > 100 else content
LoggedText(content) ==
    IF content.len > MaxBotChars
    THEN [template |-> content.template, len |-> MaxBotChars + Len("...")]
    ELSE content

\* lines 313-316: the bot entry is appended (to a conversation that exists)
LogReply(convs, conversation_id, content, now, turn) ==
    [convs EXCEPT ![conversation_id].messages =
        Append(@, [bot |-> LoggedText(content), timestamp |-> now, turn |-> turn])]

(***************************************************************************)
(* What the clients send, and the bounds of the model.                     *)
(***************************************************************************)

\* how many chat turns may be in flight at once
MaxInFlight == 2

\* how many requests the clients send in a run of the short histories
MaxTurns == 3

\* how many requests the clients send in a run of the long histories
MaxLongTurns == 6

\* the messages of the short histories: blank, a vague follow-up, a lead
\* phrase, a bare title, a request with a genre
ShortMessages ==
    {"  ", "tell me more", "Tell me about Toy Story", "Toy Story",
     "comedy movies"}

\* the message of the long histories: a title that names a genre
LongMessages == {"Comedy Movies"}

\* the conversation_id field of the requests ("" for a request without one)
RequestedIds == {"", "c1"}

Slots == 1..MaxInFlight

\* classify(m) for every message m of S (classify is a pure function: a
\* run computes its value once per message)
RECURSIVE ClassifyAll(_)
ClassifyAll(S) ==
    IF S = {} THEN [m \in {} |-> classify(m)]
    ELSE LET m == CHOOSE x \in S : TRUE
         IN (m :> classify(m)) @@ ClassifyAll(S \ {m})

\* re.search of the lead phrase in m for every message m of S (a run
\* computes it once per message)
RECURSIVE TellAboutAll(_)
TellAboutAll(S) ==
    IF S = {} THEN [m \in {} |-> LeadMatch(m)]
    ELSE LET m == CHOOSE x \in S : TRUE
         IN (m :> LeadMatch(m)) @@ TellAboutAll(S \ {m})

\* what the clients of a run send: the messages, the conversation_id
\* fields, how many requests, and the calls of the catalog that may fail in
\* the run; with it the intent result and the lead-phrase match of each
\* message
Environment(messages, ids, requests, failures) ==
    [messages |-> messages, ids |-> ids, requests |-> requests,
     failures |-> failures,
     intent_results |-> ClassifyAll({strip(x) : x \in messages} \ {""}),
     tell_about_matches |-> TellAboutAll({strip(x) : x \in messages} \ {""})]

\* the movie ids that the calls of get_movie_details ask for
MovieIds == {550, 603}

\* return None
DetailsNone == -1

VARIABLES
    conversations,  \* the dict `conversations` of main.py
    tasks,          \* the chat turns in flight, by slot
    clock,          \* the requests received so far; it also is datetime.now()
    returned,       \* what the last step returned to its caller, if it returned
    env,            \* what the clients of this run send (Environment)
    catalog         \* the cache of movie details and the provider behind it

vars == <<conversations, tasks, clock, returned, env, catalog>>

\* MOVIE_CACHE = TTLCache(...) at import, before any call of
\* get_movie_details: nothing is cached; the provider has the first version
\* of every movie, and has not been contacted.  `last` is not in the
\* program: it keeps, by movie, the payload the last successful call
\* returned since its cache entry was last removed.  The chat turns take
\* the catalog's answers as free choices (Answers), which covers every
\* state of the cache: their actions leave this variable alone.
NoCatalog ==
    [cache |-> [k \in {} |-> 0],
     provider |-> [id \in MovieIds |-> 0],
     contacts |-> 0,
     last |-> [id \in MovieIds |-> DetailsNone]]

Idle == [pc |-> "idle"]

\* the calls of the catalog that the handler of intent_result can make
AwaitedCalls(intent_result) ==
    LET intent == intent_result.intent
        entities == intent_result.entities
        titled == "movie_title" \in DOMAIN entities
    IN (IF titled /\ intent \in {SEARCH, TRIVIA, DEBATE, PLOT_QUERY, RATING_QUERY}
        THEN {"results"} ELSE {})
       \cup (IF titled /\ intent \in {SEARCH, RATING_QUERY} THEN {"details"} ELSE {})
       \cup (IF "genres" \in DOMAIN entities /\ intent \in {RECOMMEND, GENRE_QUERY}
             THEN {"genre"} ELSE {})
       \cup (IF intent \in {RECOMMEND, TRIVIA} THEN {"popular"} ELSE {})
       \cup (IF intent = TRIVIA THEN {"trivia"} ELSE {})
       \cup (IF "person_names" \in DOMAIN entities
                /\ intent \in {ACTOR_INFO, DIRECTOR_INFO}
             THEN {"person"} ELSE {})

\* the answers of the catalog and of the random generator that the handler
\* of intent_result can tell apart, with the calls that fail
Answers(intent_result) ==
    LET intent == intent_result.intent
        entities == intent_result.entities
        titled == "movie_title" \in DOMAIN entities
    IN [results : IF titled /\ intent \in {SEARCH, TRIVIA, DEBATE, PLOT_QUERY, RATING_QUERY}
                  THEN {0, 1, 2} ELSE {0},
        details : IF titled /\ intent \in {SEARCH, RATING_QUERY}
                  THEN BOOLEAN ELSE {FALSE},
        genre : IF "genres" \in DOMAIN entities /\ intent \in {RECOMMEND, GENRE_QUERY}
                THEN BOOLEAN ELSE {FALSE},
        popular : IF intent \in {RECOMMEND, TRIVIA} THEN BOOLEAN ELSE {FALSE},
        trivia : IF intent = TRIVIA THEN BOOLEAN ELSE {FALSE},
        person : IF "person_names" \in DOMAIN entities
                    /\ intent \in {ACTOR_INFO, DIRECTOR_INFO}
                 THEN {0, 1, 2} ELSE {0},
        rnd : IF intent = DEBATE THEN 0..(Len(DebateTopics) - 1)
              ELSE IF intent \in {GREETING, YEAR_QUERY, RECOMMENDATION, UNKNOWN}
              THEN 0..(Len(GreetingResponses) - 1)
              ELSE {0},
        failed : SUBSET (env.failures \cap AwaitedCalls(intent_result))]

\* whether the handler of intent_result awaits a catalog operation
Awaits(intent_result) ==
    \E c \in Answers(intent_result) : generate_response(intent_result, c).calls # <<>>

\* what a chat turn returns, with what the turn did: message is the
\* stripped message of the request, path the branch that answered, calls
\* the catalog operations awaited, found whether the search of the direct
\* branch gave a movie, generated whether generate_response ran, failed the
\* calls of the catalog that failed in the turn
ChatReturned(turn, message, body, path, calls, found, generated, failed) ==
    [op |-> "chat", turn |-> turn, conversation_id |-> body.conversation_id,
     message |-> message, status |-> body.status, body |-> body, path |-> path,
     calls |-> calls, found |-> found, generated |-> generated,
     failed |-> failed]

\* what a lookup or a deletion returns
StoreReturned(op, conversation_id, status) ==
    [op |-> op, turn |-> 0, conversation_id |-> conversation_id,
     message |-> "", status |-> status, body |-> Content(op, status),
     path |-> "store", calls |-> <<>>, found |-> FALSE, generated |-> FALSE,
     failed |-> {}]

\* a step that suspends at an await returns nothing
NoReturn == StoreReturned("none", "", 0)

Init ==
    /\ conversations = [id \in {} |-> NewConversation(0)]
    /\ tasks = [s \in Slots |-> Idle]
    /\ clock = 0
    /\ returned = NoReturn
    /\ catalog = NoCatalog
    /\ env = Environment(ShortMessages, RequestedIds, MaxTurns, {})

InitLong ==
    /\ conversations = [id \in {} |-> NewConversation(0)]
    /\ tasks = [s \in Slots |-> Idle]
    /\ clock = 0
    /\ returned = NoReturn
    /\ catalog = NoCatalog
    /\ env = Environment(LongMessages, {"c1"}, MaxLongTurns, {})

\* NormalProcessing calling the generator before it records the turn
NormalProcessing_reply_first(s, convs, turn, conversation_id, user_message, intent_result, calls, failed) ==
    LET recorded == RecordTurn(convs, conversation_id, user_message, intent_result,
                               clock', turn)
    IN IF Awaits(intent_result)
       THEN /\ conversations' = EnsureConversation(convs, conversation_id, clock')
            /\ tasks' = [tasks EXCEPT ![s] =
                            [pc |-> "generate", turn |-> turn,
                             conversation_id |-> conversation_id,
                             user_message |-> user_message,
                             intent_result |-> intent_result,
                             movie_title |-> "", calls |-> calls,
                             failed |-> failed]]
            /\ returned' = NoReturn
       ELSE \E c \in Answers(intent_result) :
                LET chat_response == generate_response(intent_result, c)
                IN /\ conversations' = LogReply(recorded, conversation_id,
                                                chat_response.content, clock', turn)
                   /\ tasks' = [tasks EXCEPT ![s] = Idle]
                   /\ returned' =
                        ChatReturned(turn, user_message,
                            ChatResponseModel(chat_response.content, conversation_id,
                                chat_response.suggestions, chat_response.data,
                                intent_result.intent, chat_response.response_type),
                            "normal", calls \o chat_response.calls, FALSE, TRUE,
                            failed \cup c.failed)

\* lines 278-328 from a store `convs`: the turn is recorded, the reply
\* generated (the turn waits while the handler awaits the catalog), logged
\* and returned
NormalProcessing(s, convs, turn, conversation_id, user_message, intent_result, calls, failed) ==
    LET recorded == RecordTurn(convs, conversation_id, user_message, intent_result,
                               clock', turn)
    IN IF Awaits(intent_result)
       THEN /\ conversations' = recorded
            /\ tasks' = [tasks EXCEPT ![s] =
                            [pc |-> "generate", turn |-> turn,
                             conversation_id |-> conversation_id,
                             user_message |-> user_message,
                             intent_result |-> intent_result,
                             movie_title |-> "", calls |-> calls,
                             failed |-> failed]]
            /\ returned' = NoReturn
       ELSE \E c \in Answers(intent_result) :
                LET chat_response == generate_response(intent_result, c)
                IN /\ conversations' = LogReply(recorded, conversation_id,
                                                chat_response.content, clock', turn)
                   /\ tasks' = [tasks EXCEPT ![s] = Idle]
                   /\ returned' =
                        ChatReturned(turn, user_message,
                            ChatResponseModel(chat_response.content, conversation_id,
                                chat_response.suggestions, chat_response.data,
                                intent_result.intent, chat_response.response_type),
                            "normal", calls \o chat_response.calls, FALSE, TRUE,
                            failed \cup c.failed)

\* chat_endpoint from its first line to its first await or to its return
\* (the request takes the first free slot)
Start(s, requested, raw) ==
    /\ tasks[s].pc = "idle"
    /\ \A t \in Slots : t < s => tasks[t].pc # "idle"
    /\ clock < env.requests
    /\ clock' = clock + 1
    /\ env' = env
    /\ catalog' = catalog
    /\ LET user_message == strip(raw)
           conversation_id == ConversationId(requested)
           turn == clock + 1
       IN IF user_message = ""
          THEN \* HTTPException(400) is raised inside the try block, and
               \* `except Exception` catches it
               /\ conversations' = conversations
               /\ tasks' = tasks
               /\ returned' = ChatReturned(turn, user_message,
                                           ErrorReply(conversation_id),
                                           "error", <<>>, FALSE, FALSE, {})
          ELSE LET intent_result == env.intent_results[user_message]
                   convs1 == EnsureConversation(conversations, conversation_id, turn)
                   movie_title == DirectMovieTitle(user_message,
                                                  env.tell_about_matches[user_message],
                                                  convs1, conversation_id)
               IN IF movie_title # ""
                  THEN /\ conversations' = convs1
                       /\ tasks' = [tasks EXCEPT ![s] =
                                       [pc |-> "search", turn |-> turn,
                                        conversation_id |-> conversation_id,
                                        user_message |-> user_message,
                                        intent_result |-> intent_result,
                                        movie_title |-> movie_title,
                                        calls |-> <<"search_movies">>]]
                       /\ returned' = NoReturn
                  ELSE IF /\ lower(user_message) \in VaguePhrases
                          /\ ~Truthy(intent_result.entities, "title")
                  THEN /\ conversations' = convs1
                       /\ tasks' = tasks
                       /\ returned' =
                            ChatReturned(turn, user_message,
                                ClarificationReply(conversation_id,
                                                   convs1[conversation_id].context),
                                "clarification", <<>>, FALSE, FALSE, {})
                  ELSE NormalProcessing(s, convs1, turn, conversation_id,
                                        user_message, intent_result, <<>>, {})

\* SearchReturn going on to the normal processing whatever the search gave
SearchReturn_always_normal(s) ==
    /\ tasks[s].pc = "search"
    /\ clock' = clock
    /\ env' = env
    /\ catalog' = catalog
    /\ \E found \in BOOLEAN :
        \E c \in Answers(tasks[s].intent_result) :
            LET chat_response == generate_response(tasks[s].intent_result, c)
                conversation_id == tasks[s].conversation_id
                recorded == RecordTurn(conversations, conversation_id,
                                       tasks[s].user_message, tasks[s].intent_result,
                                       clock, tasks[s].turn)
            IN /\ conversations' = LogReply(recorded, conversation_id,
                                            chat_response.content, clock, tasks[s].turn)
               /\ tasks' = [tasks EXCEPT ![s] = Idle]
               /\ returned' =
                    ChatReturned(tasks[s].turn, tasks[s].user_message,
                        ChatResponseModel(chat_response.content, conversation_id,
                            chat_response.suggestions, chat_response.data,
                            tasks[s].intent_result.intent,
                            chat_response.response_type),
                        "normal", tasks[s].calls \o chat_response.calls, found, TRUE,
                        c.failed)

\* SearchReturn without the try block around the search: its failure is
\* answered by the except branch of chat_endpoint
SearchReturn_uncaught(s) ==
    /\ tasks[s].pc = "search"
    /\ clock' = clock
    /\ env' = env
    /\ catalog' = catalog
    /\ \E failed \in SUBSET (env.failures \cap {"direct"}) :
        \E answer \in BOOLEAN :
            IF failed # {}
            THEN /\ conversations' = conversations
                 /\ tasks' = [tasks EXCEPT ![s] = Idle]
                 /\ returned' =
                      ChatReturned(tasks[s].turn, tasks[s].user_message,
                          ErrorReply(tasks[s].conversation_id),
                          "error", tasks[s].calls, FALSE, FALSE, failed)
            ELSE IF answer
            THEN /\ conversations' = conversations
                 /\ tasks' = [tasks EXCEPT ![s] = Idle]
                 /\ returned' =
                      ChatReturned(tasks[s].turn, tasks[s].user_message,
                          MovieInfoReply(tasks[s].conversation_id,
                                         MovieTitle(tasks[s].movie_title)),
                          "direct", tasks[s].calls, TRUE, FALSE, failed)
            ELSE NormalProcessing(s, conversations, tasks[s].turn,
                                  tasks[s].conversation_id, tasks[s].user_message,
                                  tasks[s].intent_result, tasks[s].calls, failed)

\* chat_endpoint resumes after `await movie_api.search_movies(movie_title,
\* limit=1)`, which gave the catalog's answer or, having failed, nothing:
\* with a movie it returns the movie-info reply, with none (or after an
\* exception) it goes on to the normal processing
SearchReturn(s) ==
    /\ tasks[s].pc = "search"
    /\ clock' = clock
    /\ env' = env
    /\ catalog' = catalog
    /\ \E failed \in SUBSET (env.failures \cap {"direct"}) :
        \E answer \in BOOLEAN :
            IF answer /\ failed = {}
            THEN /\ conversations' = conversations
                 /\ tasks' = [tasks EXCEPT ![s] = Idle]
                 /\ returned' =
                      ChatReturned(tasks[s].turn, tasks[s].user_message,
                          MovieInfoReply(tasks[s].conversation_id,
                                         MovieTitle(tasks[s].movie_title)),
                          "direct", tasks[s].calls, TRUE, FALSE, failed)
            ELSE NormalProcessing(s, conversations, tasks[s].turn,
                                  tasks[s].conversation_id, tasks[s].user_message,
                                  tasks[s].intent_result, tasks[s].calls, failed)

\* GenerateReturn without the except branch: the KeyError of a conversation
\* deleted meanwhile reaches the caller as a server error
GenerateReturn_uncaught(s) ==
    /\ tasks[s].pc = "generate"
    /\ clock' = clock
    /\ env' = env
    /\ catalog' = catalog
    /\ tasks' = [tasks EXCEPT ![s] = Idle]
    /\ \E c \in Answers(tasks[s].intent_result) :
        LET chat_response == generate_response(tasks[s].intent_result, c)
            conversation_id == tasks[s].conversation_id
        IN IF conversation_id \in DOMAIN conversations
           THEN /\ conversations' = LogReply(conversations, conversation_id,
                                             chat_response.content, clock, tasks[s].turn)
                /\ returned' =
                     ChatReturned(tasks[s].turn, tasks[s].user_message,
                         ChatResponseModel(chat_response.content, conversation_id,
                             chat_response.suggestions, chat_response.data,
                             tasks[s].intent_result.intent,
                             chat_response.response_type),
                         "normal", tasks[s].calls \o chat_response.calls, FALSE, TRUE,
                         tasks[s].failed \cup c.failed)
           ELSE /\ conversations' = conversations
                /\ returned' = ChatReturned(tasks[s].turn, tasks[s].user_message,
                                            [status |-> 500,
                                             response |-> Content("KeyError", 0),
                                             conversation_id |-> conversation_id],
                                            "error",
                                            tasks[s].calls \o chat_response.calls,
                                            FALSE, TRUE,
                                            tasks[s].failed \cup c.failed)

\* chat_endpoint resumes after `await response_generator.generate_response`:
\* the reply is logged and returned; with the conversation deleted
\* meanwhile, conversations[conversation_id] raises KeyError, which
\* `except Exception` answers
GenerateReturn(s) ==
    /\ tasks[s].pc = "generate"
    /\ clock' = clock
    /\ env' = env
    /\ catalog' = catalog
    /\ tasks' = [tasks EXCEPT ![s] = Idle]
    /\ \E c \in Answers(tasks[s].intent_result) :
        LET chat_response == generate_response(tasks[s].intent_result, c)
            conversation_id == tasks[s].conversation_id
        IN IF conversation_id \in DOMAIN conversations
           THEN /\ conversations' = LogReply(conversations, conversation_id,
                                             chat_response.content, clock, tasks[s].turn)
                /\ returned' =
                     ChatReturned(tasks[s].turn, tasks[s].user_message,
                         ChatResponseModel(chat_response.content, conversation_id,
                             chat_response.suggestions, chat_response.data,
                             tasks[s].intent_result.intent,
                             chat_response.response_type),
                         "normal", tasks[s].calls \o chat_response.calls, FALSE, TRUE,
                         tasks[s].failed \cup c.failed)
           ELSE /\ conversations' = conversations
                /\ returned' = ChatReturned(tasks[s].turn, tasks[s].user_message,
                                            ErrorReply(conversation_id), "error",
                                            tasks[s].calls \o chat_response.calls,
                                            FALSE, TRUE,
                                            tasks[s].failed \cup c.failed)

\* GET /conversations/{conversation_id}
get_conversation(conversation_id) ==
    /\ clock < env.requests
    /\ clock' = clock + 1
    /\ conversations' = conversations
    /\ tasks' = tasks
    /\ env' = env
    /\ catalog' = catalog
    /\ returned' = StoreReturned("get", conversation_id,
                                 IF conversation_id \in DOMAIN conversations
                                 THEN 200 ELSE 404)

\* clear_conversation reporting the deletion and keeping the conversation
clear_conversation_keeps(conversation_id) ==
    /\ clock < env.requests
    /\ clock' = clock + 1
    /\ tasks' = tasks
    /\ env' = env
    /\ catalog' = catalog
    /\ conversations' = conversations
    /\ returned' = StoreReturned("clear", conversation_id,
                                 IF conversation_id \in DOMAIN conversations
                                 THEN 200 ELSE 404)

\* DELETE /conversations/{conversation_id}
clear_conversation(conversation_id) ==
    /\ clock < env.requests
    /\ clock' = clock + 1
    /\ tasks' = tasks
    /\ env' = env
    /\ catalog' = catalog
    /\ IF conversation_id \in DOMAIN conversations
       THEN /\ conversations' =
                 [id \in DOMAIN conversations \ {conversation_id} |-> conversations[id]]
            /\ returned' = StoreReturned("clear", conversation_id, 200)
       ELSE /\ conversations' = conversations
            /\ returned' = StoreReturned("clear", conversation_id, 404)

Next ==
    \/ \E s \in Slots : \E requested \in env.ids : \E raw \in env.messages :
           Start(s, requested, raw)
    \/ \E s \in Slots : SearchReturn(s)
    \/ \E s \in Slots : GenerateReturn(s)
    \/ \E id \in {ConversationId(r) : r \in env.ids} : get_conversation(id)
    \/ \E id \in {ConversationId(r) : r \in env.ids} : clear_conversation(id)

Spec == Init /\ [][Next]_vars

\* the long histories are chat turns only, of messages whose handlers await
\* nothing
NextLong ==
    \/ \E s \in Slots : \E requested \in env.ids : \E raw \in env.messages :
           Start(s, requested, raw)
    \/ \E s \in Slots : SearchReturn(s)

SpecLong == InitLong /\ [][NextLong]_vars

\* the messages of the histories about the recent titles: bare titles, one
\* of them inside another, a title in other letter case, a title inside a
\* longer message
RecentMessages ==
    {"Toy Story 2", "Toy Story", "toy story", "we all liked toy story", "plot"}

InitRecent ==
    /\ conversations = [id \in {} |-> NewConversation(0)]
    /\ tasks = [s \in Slots |-> Idle]
    /\ clock = 0
    /\ returned = NoReturn
    /\ catalog = NoCatalog
    /\ env = Environment(RecentMessages, {"c1"}, MaxTurns, {})

SpecRecent == InitRecent /\ [][NextLong]_vars

\* the messages of the histories with a failing catalog: a lead phrase, and
\* requests whose handlers ask the catalog for a genre, for the popular
\* movies and a trivia, for a person
FailMessages ==
    {"Tell me about Toy Story", "comedy movies", "movie trivia please",
     "who is the actor Tom Hanks", "recommend an action movie"}

\* how many requests the clients send in a run with a failing catalog
MaxFailTurns == 2

InitFail ==
    /\ conversations = [id \in {} |-> NewConversation(0)]
    /\ tasks = [s \in Slots |-> Idle]
    /\ clock = 0
    /\ returned = NoReturn
    /\ catalog = NoCatalog
    /\ env = Environment(FailMessages, {"c1"}, MaxFailTurns, CatalogCalls)

\* chat turns only, none deleted on the way
NextFail ==
    \/ \E s \in Slots : \E requested \in env.ids : \E raw \in env.messages :
           Start(s, requested, raw)
    \/ \E s \in Slots : SearchReturn(s)
    \/ \E s \in Slots : GenerateReturn(s)

SpecFail == InitFail /\ [][NextFail]_vars

(***************************************************************************)
(* The entity extractor on its own: one call of _extract_entities on a     *)
(* message and an intent drawn from bounded sets.                          *)
(***************************************************************************)

\* the messages given to the extractor: with and without a quoted span, a
\* lead phrase (before '?', before '.', at the end of the text), a short
\* text with a capital, a year token
ProbeMessages ==
    {"Tell me about \"Inception\" please",
     "\"Up\"",
     "I loved \"Heat\"",
     "have you seen \"the matrix\" by any chance",
     "what was that film called \"jaws\" again",
     "I want a movie from 1994",
     "Tell me about Titanic 1997",
     "Titanic 1997",
     "something from 1999 or maybe 2001 with robots",
     "a western from 1850 or so would be nice",
     "The Godfather",
     "recommend a scary horror film for tonight",
     "about The Matrix?",
     "could you tell me about the lord of the rings. thanks",
     "What is Heat",
     "The Gorge",
     "watch Heat now",
     "find me Mad Max please",
     "recommend a good musical"}

InitExtract ==
    /\ conversations = [id \in {} |-> NewConversation(0)]
    /\ tasks = [s \in Slots |-> Idle]
    /\ clock = 0
    /\ returned = NoReturn
    /\ catalog = NoCatalog
    /\ env = Environment(ProbeMessages, {}, 1, {})

\* what a call of the extractor returns, with its arguments
Extracted(message, intent) ==
    [op |-> "_extract_entities", message |-> message, intent |-> intent,
     entities |-> _extract_entities(message, intent)]

\* self._extract_entities(message, intent), called once in a run
ExtractEntities(message, intent) ==
    /\ clock < env.requests
    /\ clock' = clock + 1
    /\ returned' = Extracted(message, intent)
    /\ UNCHANGED <<conversations, tasks, env, catalog>>

NextExtract ==
    \E message \in env.messages : \E intent \in Intent :
        ExtractEntities(message, intent)

SpecExtract == InitExtract /\ [][NextExtract]_vars

(***************************************************************************)
(* The classifier on its own: calls of classify on messages drawn from a   *)
(* bounded set.                                                            *)
(***************************************************************************)

\* how many calls of classify a run makes
MaxClassified == 4

\* how the messages given to classify begin: with nothing, a greeting, a
\* request of one intent
ClassifyHeads ==
    {"", "hello ", "recommend ", "who directed ", "tell me trivia about ",
     "what is the rating of "}

\* how they end: with words no rule knows, a genre, a year, a plot
ClassifyTails ==
    {"heat", "a comedy movie", "something from 1999", "the plot of jaws", "xyzzy"}

ClassifyMessages == {a \o b : a \in ClassifyHeads, b \in ClassifyTails}

InitClassify ==
    /\ conversations = [id \in {} |-> NewConversation(0)]
    /\ tasks = [s \in Slots |-> Idle]
    /\ clock = 0
    /\ returned = NoReturn
    /\ catalog = NoCatalog
    /\ env = Environment(ClassifyMessages, {}, MaxClassified, {})

\* intent_classifier.classify(message)
Classify(message) ==
    /\ clock < env.requests
    /\ clock' = clock + 1
    /\ returned' = [op |-> "classify", message |-> message,
                    result |-> env.intent_results[message]]
    /\ UNCHANGED <<conversations, tasks, env, catalog>>

NextClassify == \E message \in env.messages : Classify(message)

SpecClassify == InitClassify /\ [][NextClassify]_vars

\* a turn that is suspended in its handler with a title and a genre in its
\* entities, and a turn of the direct branch
OrderMessages == {"recommend a comedy like \"Heat\"", "Tell me about Toy Story"}

InitOrder ==
    /\ conversations = [id \in {} |-> NewConversation(0)]
    /\ tasks = [s \in Slots |-> Idle]
    /\ clock = 0
    /\ returned = NoReturn
    /\ catalog = NoCatalog
    /\ env = Environment(OrderMessages, {"c1"}, MaxTurns, {})

SpecOrder == InitOrder /\ [][Next]_vars

\* turns that fill the rolling windows: a title with a genre, a title
\* alone, and neither
WindowMessages ==
    {"the comedy \"Big\" is such good fun",
     "we all watched \"Heat\" again last night",
     "the plot was thin"}

InitWindow ==
    /\ conversations = [id \in {} |-> NewConversation(0)]
    /\ tasks = [s \in Slots |-> Idle]
    /\ clock = 0
    /\ returned = NoReturn
    /\ catalog = NoCatalog
    /\ env = Environment(WindowMessages, {"c1"}, MaxLongTurns, {})

\* chat turns only, each of them run from its first line to its return
NextWindow ==
    \E s \in Slots : \E requested \in env.ids : \E raw \in env.messages :
        Start(s, requested, raw)

SpecWindow == InitWindow /\ [][NextWindow]_vars

\* every phrase of the vague follow-up list is sent, in lowercase as the
\* list has it, to a store that starts empty
InitVague ==
    /\ conversations = [id \in {} |-> NewConversation(0)]
    /\ tasks = [s \in Slots |-> Idle]
    /\ clock = 0
    /\ returned = NoReturn
    /\ catalog = NoCatalog
    /\ env = Environment(VaguePhrases, {"c1"}, MaxFailTurns, {})

SpecVague == InitVague /\ [][NextFail]_vars

(***************************************************************************)
(* MovieAPIService.get_movie_details and its cache, called on their own.   *)
(***************************************************************************)

\* calls of get_movie_details in one run
MaxCatalogCalls == 4

\* times the provider's data about one movie changes in one run
MaxVersions == 1

\* cache_key = f"movie_{movie_id}"
CacheKey(movie_id) == "movie_" \o ToString(movie_id)

\* what a finished call of get_movie_details handed to its caller
DetailsReturned(movie_id, payload, contacted) ==
    [op |-> "get_movie_details", movie_id |-> movie_id,
     payload |-> payload, contacted |-> contacted]

InitCatalog ==
    /\ conversations = [c \in {} |-> NewConversation(0)]
    /\ tasks = [s \in Slots |-> Idle]
    /\ clock = 0
    /\ returned = NoReturn
    /\ catalog = NoCatalog
    /\ env = Environment({}, {}, MaxCatalogCalls, {})

\* get_movie_details up to its first await: a key found in MOVIE_CACHE is
\* returned at once; otherwise the call is suspended in its requests.
DetailsStart(s, movie_id) ==
    /\ tasks[s] = Idle
    /\ \A t \in Slots : t < s => tasks[t] # Idle
    /\ clock < env.requests
    /\ clock' = clock + 1
    /\ IF CacheKey(movie_id) \in DOMAIN catalog.cache
       THEN /\ returned' = DetailsReturned(movie_id,
                               catalog.cache[CacheKey(movie_id)], FALSE)
            /\ tasks' = tasks
       ELSE /\ tasks' = [tasks EXCEPT ![s] = [pc |-> "details",
                                              movie_id |-> movie_id]]
            /\ returned' = returned
    /\ UNCHANGED <<conversations, env, catalog>>

\* the same, but the payload that was built is not written to MOVIE_CACHE
DetailsReturn_unstored(s) ==
    /\ tasks[s].pc = "details"
    /\ tasks' = [tasks EXCEPT ![s] = Idle]
    /\ \E ok \in BOOLEAN :
           LET movie_id == tasks[s].movie_id
               payload == IF ok THEN catalog.provider[movie_id] ELSE DetailsNone
           IN /\ returned' = DetailsReturned(movie_id, payload, TRUE)
              /\ catalog' = [catalog EXCEPT
                     !.contacts = (@ + 1) % (MaxCatalogCalls + 1),
                     !.last[movie_id] = IF ok THEN payload ELSE @]
    /\ UNCHANGED <<conversations, clock, env>>

\* get_movie_details after its requests: the provider was contacted; the
\* payload built from its answers is stored under the key and returned, and
\* any exception on the way gives None and leaves the cache as it was.
DetailsReturn(s) ==
    /\ tasks[s].pc = "details"
    /\ tasks' = [tasks EXCEPT ![s] = Idle]
    /\ \E ok \in BOOLEAN :
           LET movie_id == tasks[s].movie_id
               payload == IF ok THEN catalog.provider[movie_id] ELSE DetailsNone
           IN /\ returned' = DetailsReturned(movie_id, payload, TRUE)
              /\ catalog' = [catalog EXCEPT
                     !.contacts = (@ + 1) % (MaxCatalogCalls + 1),
                     !.cache = IF ok
                               THEN (CacheKey(movie_id) :> payload) @@ @
                               ELSE @,
                     !.last[movie_id] = IF ok THEN payload ELSE @]
    /\ UNCHANGED <<conversations, clock, env>>

\* the provider's data about a movie changes
ProviderChanges(movie_id) ==
    /\ catalog.provider[movie_id] < MaxVersions
    /\ catalog' = [catalog EXCEPT !.provider[movie_id] = @ + 1]
    /\ UNCHANGED <<conversations, tasks, clock, returned, env>>

\* TTLCache drops an entry: its ttl has run out, or maxsize was reached
Expire(movie_id) ==
    /\ CacheKey(movie_id) \in DOMAIN catalog.cache
    /\ catalog' = [catalog EXCEPT
           !.cache = [k \in DOMAIN @ \ {CacheKey(movie_id)} |-> @[k]],
           !.last[movie_id] = DetailsNone]
    /\ UNCHANGED <<conversations, tasks, clock, returned, env>>

NextCatalog ==
    \/ \E s \in Slots : \E movie_id \in MovieIds : DetailsStart(s, movie_id)
    \/ \E s \in Slots : DetailsReturn(s)
    \/ \E movie_id \in MovieIds : ProviderChanges(movie_id)
    \/ \E movie_id \in MovieIds : Expire(movie_id)

SpecCatalog == InitCatalog /\ [][NextCatalog]_vars

(***************************************************************************)
(* The claims.                                                             *)
(***************************************************************************)

\* C1: in every reachable state, also right after a turn's bot reply has
\* been appended, the `messages` log of every conversation holds at most 10
\* entries.
C1_MessagesAtMostTen ==
    \A id \in DOMAIN conversations :
        Len(conversations[id].messages) <= MaxMessages

\* C2: in every reachable state, recent_titles and recent_genres of every
\* conversation each hold at most 5 entries.
C2_RecentAtMostFive ==
    \A id \in DOMAIN conversations :
        /\ Len(conversations[id].context.recent_titles) <= MaxRecent
        /\ Len(conversations[id].context.recent_genres) <= MaxRecent

\* a conversation whose windows are full after more turns were recorded than
\* a window holds (a recorded turn leaves two entries in the log)
C2_WindowsFullAfterEviction ==
    \E id \in DOMAIN conversations :
        /\ Len(conversations[id].context.recent_titles) = MaxRecent
        /\ Len(conversations[id].context.recent_genres) = MaxRecent
        /\ Len(conversations[id].messages) > 2 * MaxRecent

\* C3: a chat turn whose message is empty after stripping is reported with
\* status 400, and is not answered with the apology of intent 'error'.
C3_EmptyMessageIsClientError ==
    (returned.op = "chat" /\ returned.message = "")
        => (returned.status = 400 /\ returned.body.intent # "error")

\* C4: whenever the message contains a double-quoted span, the extracted
\* title is the first quoted span verbatim, whatever other title rule also
\* applies.
C4_QuotedSpanWins ==
    (returned.op = "_extract_entities" /\ FirstQuoteStart(returned.message) # 0)
        => /\ "title" \in DOMAIN returned.entities
           /\ returned.entities["title"] = FirstQuoted(returned.message)

\* C5: for every message and intent, the entities have `year` equal to the
\* first 19xx/20xx token of the message as an integer when there is one, and
\* no `year` key when there is none.
C5_YearIsFirstToken ==
    returned.op = "_extract_entities"
        => LET y == FirstYearStart(returned.message)
           IN IF y # 0
              THEN /\ "year" \in DOMAIN returned.entities
                   /\ returned.entities["year"] =
                        IntOf(SubSeq(returned.message, y, y + 3))
              ELSE "year" \notin DOMAIN returned.entities

\* C6: chat turns on one conversation identifier are serialized: in
\* `messages` every user entry is directly followed by the bot reply of the
\* same turn (the last entry may be the user entry of the one turn that is
\* suspended at the catalog call).
C6_TurnsSerialized ==
    \A id \in DOMAIN conversations :
        LET m == conversations[id].messages
        IN \A i \in 1..Len(m) :
               "user" \in DOMAIN m[i]
                   => IF i < Len(m)
                      THEN /\ "bot" \in DOMAIN m[i + 1]
                           /\ m[i + 1].turn = m[i].turn
                      ELSE \E s \in Slots :
                               /\ tasks[s].pc = "generate"
                               /\ tasks[s].turn = m[i].turn

\* C7: a step of a chat turn, lookup or delete on identifier A never changes
\* the stored state (existence included) of another identifier B, under any
\* interleaving.  The identifier a step acts on is that of the request the
\* step answers, else that of the turn the step suspends.
C7_OtherIdentifiersUntouched ==
    [][LET ActedOn ==
               IF returned'.op # "none" THEN {returned'.conversation_id}
               ELSE {tasks'[s].conversation_id :
                         s \in {t \in Slots : /\ tasks'[t] # tasks[t]
                                              /\ tasks'[t].pc # "idle"}}
           StateChanged(id) ==
               \/ (id \in DOMAIN conversations) # (id \in DOMAIN conversations')
               \/ /\ id \in DOMAIN conversations
                  /\ id \in DOMAIN conversations'
                  /\ conversations'[id] # conversations[id]
       IN \A id \in {ConversationId(r) : r \in env.ids} :
              StateChanged(id) => id \in ActedOn]_vars

\* a conversation with entries is stored while a deletion of another
\* identifier has just succeeded
C7_DeletedBesideAnother ==
    /\ returned.op = "clear"
    /\ returned.status = 200
    /\ \E id \in DOMAIN conversations :
           /\ id # returned.conversation_id
           /\ conversations[id].messages # <<>>

\* C8: clear_conversation on an absent identifier reports not-found and
\* leaves the store unchanged; on a present identifier it removes the state,
\* and a get_conversation for that identifier issued next reports not-found.
C8_ClearConversation ==
    [][/\ returned'.op = "clear"
          => LET id == returned'.conversation_id
             IN IF id \in DOMAIN conversations
                THEN /\ returned'.status = 200
                     /\ DOMAIN conversations' = DOMAIN conversations \ {id}
                     /\ \A b \in DOMAIN conversations' :
                            conversations'[b] = conversations[b]
                ELSE /\ returned'.status = 404
                     /\ conversations' = conversations
       /\ (/\ returned.op = "clear"
           /\ returned.status = 200
           /\ returned'.op = "get"
           /\ returned'.conversation_id = returned.conversation_id)
          => returned'.status = 404]_vars

\* a deletion of a stored identifier has just succeeded, and a lookup can
\* be issued next
C8_StoredIdentifierDeleted ==
    /\ returned.op = "clear"
    /\ returned.status = 200
    /\ returned.conversation_id \notin DOMAIN conversations
    /\ clock < env.requests

\* C9: when the lowercased message is a vague follow-up phrase, no title was
\* resolved by the lead-phrase or recent-title rules and the extractor found
\* no title, the turn returns a clarification reply without any catalog
\* call, whose suggestions are 'Tell me about t' for each recent title in
\* order, else 'Recommend more g movies' for each recent genre in order,
\* else none with the generic prompt.
C9_Clarification ==
    (/\ returned.op = "chat"
     /\ lower(returned.message) \in VaguePhrases
     /\ DirectMovieTitle(returned.message, LeadMatch(returned.message),
                         conversations, returned.conversation_id) = ""
     /\ ~Truthy(env.intent_results[returned.message].entities, "title"))
        => LET ctx == conversations[returned.conversation_id].context
               titles == ctx.recent_titles
               genres == ctx.recent_genres
               got == returned.body.suggestions
           IN /\ returned.body.intent = "clarification"
              /\ returned.calls = <<>>
              /\ ~returned.generated
              /\ IF titles # <<>>
                 THEN /\ Len(got) = Len(titles)
                      /\ \A n \in 1..Len(titles) :
                             got[n] = "Tell me about " \o titles[n]
                 ELSE IF genres # <<>>
                 THEN /\ Len(got) = Len(genres)
                      /\ \A n \in 1..Len(genres) :
                             got[n] = "Recommend more " \o genres[n] \o " movies"
                 ELSE /\ got = <<>>
                      /\ returned.body.response.template = "clarify_generic"

\* a clarification that suggests the recent titles of a conversation that
\* has recent genres too
C9_SuggestsRecentTitles ==
    /\ returned.op = "chat"
    /\ returned.path = "clarification"
    /\ returned.body.suggestions # <<>>
    /\ conversations[returned.conversation_id].context.recent_titles # <<>>
    /\ conversations[returned.conversation_id].context.recent_genres # <<>>

\* C10: when the lead phrase matches the message and the search of its
\* capture gives a movie, the turn returns the movie-info reply (intent and
\* response_type 'movie_info') whatever the classified intent and without
\* the response generator; when the search gives nothing the turn goes the
\* normal path and its reply comes from the response generator.
C10_LeadPhraseReply ==
    (/\ returned.op = "chat"
     /\ returned.message # ""
     /\ env.tell_about_matches[returned.message].found)
        => IF returned.found
           THEN /\ returned.path = "direct"
                /\ returned.body.intent = "movie_info"
                /\ returned.body.response_type = "movie_info"
                /\ ~returned.generated
           ELSE /\ returned.path = "normal"
                /\ returned.generated
                /\ returned.body.intent =
                       env.intent_results[returned.message].intent

\* a movie-info reply to a lead-phrase message that the scorer gave another
\* intent
C10_MovieInfoWhateverIntent ==
    /\ returned.op = "chat"
    /\ returned.found
    /\ LeadMatch(returned.message).found
    /\ returned.body.intent = "movie_info"
    /\ env.intent_results[returned.message].intent = PLOT_QUERY

\* C11: when the lead phrase does not match and the message has at most 3
\* words, the turn resolves the first entry of recent_titles (oldest first)
\* that contains the message or is contained in it, letter case apart, and
\* searches the catalog for it: the movie found is answered with the
\* movie-info reply for that title; with no such entry, or with more than 3
\* words, the rule resolves no title and the turn does not search.
C11_RecentTitleRule ==
    [][/\ (clock' = clock + 1 /\ returned'.op \in {"none", "chat"})
            => LET suspended == {s \in Slots : tasks'[s] # tasks[s]}
                   task == tasks'[CHOOSE s \in suspended : TRUE]
                   message == IF suspended # {} THEN task.user_message
                              ELSE returned'.message
                   id == IF suspended # {} THEN task.conversation_id
                         ELSE returned'.conversation_id
                   recent == IF id \in DOMAIN conversations
                             THEN conversations[id].context.recent_titles
                             ELSE <<>>
                   low == lower(message)
                   matching ==
                       {n \in 1..Len(recent) :
                           \/ Contains(lower(recent[n]), low)
                           \/ Contains(low, lower(recent[n]))}
                   searching == suspended # {} /\ task.pc = "search"
               IN (message # "" /\ ~env.tell_about_matches[message].found)
                  => IF WordCount(message) <= 3 /\ matching # {}
                     THEN /\ searching
                          /\ \E n \in matching :
                                 /\ \A k \in matching : n <= k
                                 /\ task.movie_title = recent[n]
                     ELSE ~searching
       /\ \A s \in Slots :
            (/\ tasks[s].pc = "search"
             /\ tasks'[s].pc = "idle"
             /\ returned'.op = "chat"
             /\ returned'.found)
            => /\ returned'.path = "direct"
               /\ returned'.body.intent = "movie_info"
               /\ returned'.body.suggestions[1] =
                      "More movies like " \o tasks[s].movie_title]_vars

\* a turn whose message, in other letter case, is contained in two recent
\* titles, and that searches the older of them
C11_OlderOfTwoMatches ==
    \E s \in Slots :
        /\ tasks[s].pc = "search"
        /\ tasks[s].user_message = "toy story"
        /\ tasks[s].movie_title = "Toy Story 2"
        /\ conversations[tasks[s].conversation_id].context.recent_titles
               = <<"Toy Story 2", "Toy Story">>

\* C12: an exception raised while chat_endpoint processes a turn (the
\* HTTPException of a blank message, the KeyError of a conversation deleted
\* while the reply was generated) is answered with the apology of intent
\* 'error', its three fixed suggestions and a processing_time, with status
\* 200; no chat turn returns an exception to its caller.
C12_ExceptionsAnswered ==
    [][/\ returned'.op = "chat" => returned'.status = 200
       /\ \A s \in Slots :
            (\/ /\ tasks[s].pc = "generate"
                /\ tasks'[s].pc = "idle"
                /\ tasks[s].conversation_id \notin DOMAIN conversations
             \/ /\ returned'.op = "chat"
                /\ returned'.message = "")
            => /\ returned'.op = "chat"
               /\ returned'.body.status = 200
               /\ returned'.body.intent = "error"
               /\ returned'.body.response.template = "error_apology"
               /\ returned'.body.suggestions =
                      <<"Try a different question", "Search for a movie",
                        "Ask for recommendations">>
               /\ "processing_time" \in DOMAIN returned'.body]_vars

\* the apology that answers the KeyError of a turn whose conversation was
\* deleted while its reply was generated
C12_KeyErrorAnswered ==
    /\ returned.op = "chat"
    /\ returned.message # ""
    /\ returned.generated
    /\ returned.conversation_id \notin DOMAIN conversations
    /\ returned.body.intent = "error"

C14_NoRuleIsUnknown ==
    (/\ returned.op = "classify"
     /\ \A n \in 1..Len(PatternIntents) :
            \A k \in 1..Len(Patterns[PatternIntents[n]]) :
                ~RuleMatches(Patterns[PatternIntents[n]][k],
                             strip(lower(returned.message))))
        => /\ returned.result.intent = UNKNOWN
           /\ returned.result.confidence[1] = 0
           /\ returned.result.confidence[2] > 0

\* classify has answered Unknown to a message no rule matches
C14_UnknownWord ==
    /\ returned.op = "classify"
    /\ returned.message = "xyzzy"
    /\ returned.result.intent = UNKNOWN
    /\ returned.result.original_message = "xyzzy"

\* C15: for every message whose matching rules all belong to one intent
\* category (one or more rules of it, none of another), classify returns
\* that category with confidence exactly 1.0.
C15_OneCategoryIsCertain ==
    returned.op = "classify"
        => LET low == strip(lower(returned.message))
               matched ==
                   {PatternIntents[n] : n \in
                       {m \in 1..Len(PatternIntents) :
                           \E k \in 1..Len(Patterns[PatternIntents[m]]) :
                               RuleMatches(Patterns[PatternIntents[m]][k], low)}}
           IN Cardinality(matched) = 1
                  => /\ returned.result.intent \in matched
                     /\ returned.result.confidence[1] = returned.result.confidence[2]
                     /\ returned.result.confidence[2] > 0

\* classify has answered a message that two rules of one category match,
\* and no rule of another
C15_TwoRulesOneCategory ==
    /\ returned.op = "classify"
    /\ returned.message = "something from 1999"
    /\ returned.result.intent = YEAR_QUERY
    /\ returned.result.confidence = <<2, 2>>

\* C16: when the message has no quoted span and the lead phrase matches,
\* the extracted title is the trimmed text that follows the first lead
\* phrase up to the first '?' or '.' after it or to the end of the text,
\* whatever the length and the capitals of the message and whatever the
\* intent ('about The Matrix?' gives 'The Matrix').
C16_LeadPhraseTitle ==
    (/\ returned.op = "_extract_entities"
     /\ FirstQuoteStart(returned.message) = 0
     /\ LeadMatch(returned.message).found)
        => LET s == returned.message
               low == lower(s)
               \* phrase n at position i, followed by whitespace and a text
               at(i, n) ==
                   /\ MatchAt(low, i, LeadPhrases[n])
                   /\ i + Len(LeadPhrases[n]) <= Len(s)
                   /\ CharAt(s, i + Len(LeadPhrases[n])) \in SpaceSet
                   /\ strip(SubSeq(s, i + Len(LeadPhrases[n]), Len(s))) # ""
               \* the text after position p up to the first '?' or '.'
               upto(p) ==
                   LET rest == strip(SubSeq(s, p, Len(s)))
                       stops == {k \in 2..Len(rest) : CharAt(rest, k) \in {"?", "."}}
                   IN IF stops = {} THEN rest
                      ELSE SubSeq(rest, 1,
                                  (CHOOSE k \in stops : \A l \in stops : k <= l) - 1)
           IN /\ "title" \in DOMAIN returned.entities
              /\ \E i \in 1..Len(s) : \E n \in 1..Len(LeadPhrases) :
                     /\ at(i, n)
                     /\ \A j \in 1..(i - 1) : \A m \in 1..Len(LeadPhrases) : ~at(j, m)
                     /\ \A m \in 1..(n - 1) : ~at(i, m)
                     /\ returned.entities["title"]
                            = strip(upto(i + Len(LeadPhrases[n])))

\* the extractor has given the title of a lead phrase that ends at '?', on
\* a short message with capitals
C16_AboutTheMatrix ==
    /\ returned.op = "_extract_entities"
    /\ returned.message = "about The Matrix?"
    /\ returned.intent = SEARCH
    /\ returned.entities = [title |-> "The Matrix"]

\* C17: when the message has no quoted span and no lead phrase, holds a
\* capital letter, and has at most 3 words (any intent) or at most 5 words
\* with intent Search, the extracted title is the whole trimmed message
\* ('The Gorge' gives 'The Gorge').
C17_ShortCapitalizedTitle ==
    (/\ returned.op = "_extract_entities"
     /\ FirstQuoteStart(returned.message) = 0
     /\ ~LeadMatch(returned.message).found
     /\ \E i \in 1..Len(returned.message) :
            CharAt(returned.message, i) \in UpperSet
     /\ \/ WordCount(returned.message) <= 3
        \/ (WordCount(returned.message) <= 5 /\ returned.intent = SEARCH))
        => /\ "title" \in DOMAIN returned.entities
           /\ returned.entities["title"] = strip(returned.message)

\* the extractor has given a whole message of five words as the title of a
\* search, its capitals inside the message
C17_FiveWordSearch ==
    /\ returned.op = "_extract_entities"
    /\ returned.message = "find me Mad Max please"
    /\ returned.intent = SEARCH
    /\ returned.entities = [title |-> "find me Mad Max please"]

\* C18: for the intents Plot, Rating and Trivia, when the entities of the
\* turn carry no title, the handler returns its fixed clarifying question
\* and makes no catalog call.
C18_NoTitleNoCatalogCall ==
    (/\ returned.op = "chat"
     /\ returned.generated
     /\ returned.body.intent \in {PLOT_QUERY, RATING_QUERY, TRIVIA}
     /\ ~Truthy(env.intent_results[returned.message].entities, "title")
     /\ "movie_title" \notin DOMAIN env.intent_results[returned.message].entities)
        => /\ returned.calls = <<>>
           /\ returned.body.response.template \in
                  {"plot_ask_title", "rating_ask_title", "trivia_ask_title"}

\* C19: on the normal path, when the entities the extractor produced carry
\* a title and the intent is Search, Plot, Rating, Trivia or Debate, the
\* handler queries the catalog with that title (so search_movies is among
\* the calls of the turn) and renders the movie the catalog returns; for
\* Search it returns the "couldn't find" message when the catalog returns
\* nothing.
C19_TitleIsSearched ==
    (/\ returned.op = "chat"
     /\ returned.path = "normal"
     /\ returned.body.intent \in {SEARCH, PLOT_QUERY, RATING_QUERY, TRIVIA, DEBATE}
     /\ Truthy(env.intent_results[returned.message].entities, "title"))
        => /\ \E n \in 1..Len(returned.calls) : returned.calls[n] = "search_movies"
           /\ returned.body.response.template \in
                  {"search_details", "search_several", "search_not_found",
                   "plot", "rating", "trivia_movie", "debate_movie"}

\* C20: every chat turn with a non-empty message that returns a reply other
\* than the apology appends its user message to the `messages` of its
\* conversation: in the step that returns, or before the turn was suspended
\* at generate_response.
C20_UserMessageAppended ==
    [][(/\ returned'.op = "chat"
        /\ returned'.message # ""
        /\ returned'.body.intent # "error"
        /\ (clock' # clock \/ tasks' # tasks))
       => \/ \E s \in Slots :
                 /\ tasks[s].pc = "generate"
                 /\ tasks'[s].pc = "idle"
                 /\ tasks[s].turn = returned'.turn
          \/ /\ returned'.conversation_id \in DOMAIN conversations'
             /\ \E n \in 1..Len(conversations'[returned'.conversation_id].messages) :
                    LET entry == conversations'[returned'.conversation_id].messages[n]
                    IN /\ "user" \in DOMAIN entry
                       /\ entry.turn = returned'.turn
                       /\ entry.user = returned'.message]_vars

\* C21: for a fixed message, the fields year, genre, genres and person_names
\* that _extract_entities produces are the same whatever intent is passed
\* in; only title may differ between two intents.
C21_IntentTouchesTitleOnly ==
    returned.op = "_extract_entities"
        => \A intent \in Intent :
               LET other == _extract_entities(returned.message, intent)
               IN \A key \in {"year", "genre", "genres", "person_names"} :
                      /\ (key \in DOMAIN other) = (key \in DOMAIN returned.entities)
                      /\ key \in DOMAIN other => other[key] = returned.entities[key]

\* C22: a call of get_movie_details(id) that starts when an earlier call for
\* the same id has succeeded, with no expiry or eviction of its cache entry
\* since, returns at once the payload that the latest successful call
\* returned, and the provider is not contacted.
C22_SecondCallFromCache ==
    [][\A s \in Slots : \A movie_id \in MovieIds :
           (DetailsStart(s, movie_id) /\ catalog.last[movie_id] # DetailsNone)
               => /\ returned' = DetailsReturned(movie_id,
                                     catalog.last[movie_id], FALSE)
                  /\ tasks'[s] = Idle
                  /\ catalog'.contacts = catalog.contacts]_vars

\* a second call answered from the cache although the provider's data has
\* changed since the first
C22_ServedAfterProviderChanged ==
    /\ returned.op = "get_movie_details"
    /\ ~returned.contacted
    /\ returned.payload # catalog.provider[returned.movie_id]
    /\ catalog.contacts = 1

\* C23: classify counts, for every intent of the table, the rules of that
\* intent that match the lowercased, trimmed message, each rule once; when a
\* rule matches, the intent it returns has the greatest count, and of the
\* intents with the greatest count it is the first in the order Greeting,
\* Recommend, Search, Trivia, Debate, ActorInfo, DirectorInfo, GenreQuery,
\* YearQuery, RatingQuery, PlotQuery.
C23_MostRulesFirstInTable ==
    returned.op = "classify"
        => LET low == strip(lower(returned.message))
               order == <<GREETING, RECOMMEND, SEARCH, TRIVIA, DEBATE,
                          ACTOR_INFO, DIRECTOR_INFO, GENRE_QUERY, YEAR_QUERY,
                          RATING_QUERY, PLOT_QUERY>>
               count == [n \in 1..Len(order) |->
                            Cardinality({r \in 1..Len(Patterns[order[n]]) :
                                RuleMatches(Patterns[order[n]][r], low)})]
           IN (\E n \in 1..Len(order) : count[n] > 0)
                  => \E m \in 1..Len(order) :
                         /\ returned.result.intent = order[m]
                         /\ \A l \in 1..Len(order) : count[l] <= count[m]
                         /\ \A l \in 1..(m - 1) : count[l] < count[m]

\* three intents with one matching rule each: Search, the first of them in
\* the table, is returned
C23_ThreeWayTie ==
    /\ returned.op = "classify"
    /\ returned.message = "tell me trivia about the plot of jaws"
    /\ returned.result.intent = SEARCH
    /\ LET sc == Scores(returned.message)
       IN sc[TRIVIA] = 1 /\ sc[SEARCH] = 1 /\ sc[PLOT_QUERY] = 1

\* C24: on the normal path a turn's effects come in this order.  The step
\* that suspends the turn in generate_response leaves its title and genre
\* last in recent_titles and recent_genres and its user entry last in
\* `messages`, with no bot entry of the turn; no bot entry of the turn is
\* written while the turn stays suspended; the step that resumes the turn
\* and answers with the generated reply appends the turn's bot entry.
C24_RecordedBeforeGenerated ==
    [][\A s \in Slots :
           LET turn == tasks'[s].turn
               c == tasks'[s].conversation_id
               entities == tasks'[s].intent_result.entities
               bots(convs, t) ==
                   {<<id, n>> \in {<<id, n>> \in (DOMAIN convs) \X (1..MaxMessages) :
                                       n <= Len(convs[id].messages)} :
                       /\ "bot" \in DOMAIN convs[id].messages[n]
                       /\ convs[id].messages[n].turn = t}
           IN /\ (tasks[s].pc # "generate" /\ tasks'[s].pc = "generate")
                  => /\ c \in DOMAIN conversations'
                     /\ LET conv == conversations'[c]
                            entry == conv.messages[Len(conv.messages)]
                        IN /\ Len(conv.messages) > 0
                           /\ "user" \in DOMAIN entry
                           /\ entry.turn = turn
                           /\ entry.user = tasks'[s].user_message
                           /\ Truthy(entities, "title")
                                  => /\ conv.context.recent_titles # <<>>
                                     /\ conv.context.recent_titles[
                                            Len(conv.context.recent_titles)]
                                          = entities["title"]
                           /\ Truthy(entities, "genre")
                                  => /\ conv.context.recent_genres # <<>>
                                     /\ conv.context.recent_genres[
                                            Len(conv.context.recent_genres)]
                                          = entities["genre"]
                     /\ bots(conversations', turn) = {}
              /\ (tasks[s].pc = "generate" /\ tasks'[s].pc = "generate")
                  => bots(conversations', turn) = {}
              /\ (/\ tasks[s].pc = "generate"
                  /\ tasks'[s].pc = "idle"
                  /\ returned'.body.intent # "error")
                  => /\ bots(conversations, tasks[s].turn) = {}
                     /\ LET conv == conversations'[tasks[s].conversation_id]
                        IN bots(conversations', tasks[s].turn)
                               = {<<tasks[s].conversation_id, Len(conv.messages)>>}]_vars

\* the conversation is read while a turn with a title and a genre is
\* suspended in generate_response: it holds the turn's user entry, title
\* and genre, and no bot entry
C24_ReadWhileSuspended ==
    /\ returned.op = "get"
    /\ returned.status = 200
    /\ \E s \in Slots :
           /\ tasks[s].pc = "generate"
           /\ tasks[s].intent_result.entities["title"] = "Heat"
           /\ tasks[s].intent_result.entities["genre"] = "comedy"
           /\ LET conv == conversations[tasks[s].conversation_id]
              IN /\ conv.context.recent_titles = <<"Heat">>
                 /\ conv.context.recent_genres = <<"comedy">>
                 /\ Len(conv.messages) = 1
                 /\ conv.messages[1].user = tasks[s].user_message

\* C25: a step that records a normal-path turn whose entities hold a
\* non-empty title t leaves in recent_titles the last 5 elements of the
\* previous recent_titles followed by t (the oldest goes first, a title
\* already there is added again); without a title recent_titles stays as
\* it was; the same holds of recent_genres and the entity `genre`.
C25_WindowsRollByFive ==
    [][LET suspending == {s \in Slots : /\ tasks[s].pc # "generate"
                                        /\ tasks'[s].pc = "generate"}
           answered == /\ returned'.op = "chat"
                       /\ returned'.path = "normal"
                       /\ (clock' # clock \/ tasks' # tasks)
                       /\ \A s \in Slots : ~(/\ tasks[s].pc = "generate"
                                              /\ tasks[s].turn = returned'.turn)
           turns == {[c |-> tasks'[s].conversation_id,
                      entities |-> tasks'[s].intent_result.entities] :
                         s \in suspending}
                    \cup (IF answered
                          THEN {[c |-> returned'.conversation_id,
                                 entities |->
                                     env.intent_results[returned'.message].entities]}
                          ELSE {})
           last5(seq) == IF Len(seq) <= 5 THEN seq
                         ELSE SubSeq(seq, Len(seq) - 4, Len(seq))
       IN \A turn \in turns :
              LET entities == turn.entities
                  previous == IF turn.c \in DOMAIN conversations
                              THEN conversations[turn.c].context
                              ELSE [recent_titles |-> <<>>, recent_genres |-> <<>>]
              IN /\ conversations'[turn.c].context.recent_titles =
                      IF "title" \in DOMAIN entities /\ entities["title"] # ""
                      THEN last5(previous.recent_titles \o <<entities["title"]>>)
                      ELSE previous.recent_titles
                 /\ conversations'[turn.c].context.recent_genres =
                      IF "genre" \in DOMAIN entities /\ entities["genre"] # ""
                      THEN last5(previous.recent_genres \o <<entities["genre"]>>)
                      ELSE previous.recent_genres]_vars

\* the sixth title has pushed out the oldest of five, which was another
\* title; the title that came in was in the window already; the turn had no
\* genre and the single genre is where it was
C25_OldestTitleEvicted ==
    /\ returned.op = "chat"
    /\ returned.path = "normal"
    /\ returned.message = "we all watched \"Heat\" again last night"
    /\ returned.turn = 6
    /\ conversations["c1"].context.recent_titles =
           <<"Heat", "Heat", "Heat", "Heat", "Heat">>
    /\ conversations["c1"].context.recent_genres = <<"comedy">>

\* C26: a chat turn that is suspended in generate_response, its user entry
\* recorded, when clear_conversation removes its conversation, returns on
\* resuming the reply it generated, under the intent that classify gave,
\* and not the apology.
C26_ReplySurvivesClear ==
    [][\A s \in Slots :
           (/\ tasks[s].pc = "generate"
            /\ tasks'[s].pc = "idle"
            /\ tasks[s].conversation_id \notin DOMAIN conversations)
               => /\ returned'.op = "chat"
                  /\ returned'.turn = tasks[s].turn
                  /\ returned'.body.intent = tasks[s].intent_result.intent
                  /\ returned'.body.intent # "error"
                  /\ returned'.body # ErrorReply(tasks[s].conversation_id)]_vars

\* C27: a chat turn that is suspended at the search of the direct branch
\* when clear_conversation removes its conversation does not bring the
\* identifier back into the store when it resumes: only a turn that starts
\* after the deletion creates the conversation again.
C27_InFlightTurnNeverRecreates ==
    [][\A s \in Slots :
           (/\ tasks[s].pc = "search"
            /\ tasks'[s].pc # "search"
            /\ tasks[s].conversation_id \notin DOMAIN conversations)
               => tasks[s].conversation_id \notin DOMAIN conversations']_vars

\* C28: for every intent other than Unknown that classify returns,
\* generate_response runs a handler of that intent: whatever the catalog
\* answers, its reply is none of the unknown-intent replies.
C28_EveryIntentHasHandler ==
    (returned.op = "classify" /\ returned.result.intent # UNKNOWN)
        => \A c \in Answers(returned.result) :
               \A n \in 1..Len(UnknownResponses) :
                   generate_response(returned.result, c).content # UnknownResponses[n]

\* C29: every phrase of the vague follow-up list, sent in lowercase, can be
\* answered by the clarification reply.  The lead phrase and the extracted
\* title of a message do not depend on the store, and recent titles can
\* only take a turn away from the clarification: so the phrase that can be
\* answered by it at all is answered by it as the first message of a new
\* conversation.
C29_NoDeadVaguePhrase ==
    (/\ returned.op = "chat"
     /\ returned.turn = 1
     /\ returned.message \in VaguePhrases)
        => returned.path = "clarification"

\* C30: every genre tag that _extract_entities puts into `genres` has a
\* genre id in _get_genre_id, so that get_genre_recommendations asks the
\* provider for the genre the user named.
C30_ExtractedGenresAreMapped ==
    (returned.op = "_extract_entities" /\ "genres" \in DOMAIN returned.entities)
        => \A n \in 1..Len(returned.entities["genres"]) :
               HasGenreId(returned.entities["genres"][n])

====
